---------------------------- MODULE Spec2Model ----------------------------
(***************************************************************************)
(* State-machine model of the vector-store sidecar:                        *)
(*   - the node-state actor      (crates/vector-store/src/node_state.rs)   *)
(*   - the monitor-indexes task  (crates/vector-store/src/monitor_indexes.rs) *)
(*   - the primary-key codec     (crates/vector-store/src/invariant_key.rs) *)
(*   - the HTTP routes of an index (src/httproutes.rs, src/index/)          *)
(***************************************************************************)
EXTENDS Integers, Sequences, FiniteSets, TLC

VARIABLES
    \* node-state actor (node_state.rs:61-63)
    status,         \* `status`: the Status the actor holds
    idxs,           \* `idxs`: indexes whose full scan is awaited
    ns_queue,       \* the actor's mpsc mailbox (FIFO of NodeState messages)
    \* a client of the node-state actor (node_state.rs:110-156)
    client,         \* position of the client in its event script
    \* the database the monitor polls (the Db actor's answers)
    db_indexes,     \* declared vector indexes: id, version, usable
    db_schema,      \* latest schema-change token
    healthy,        \* the transient failures (Err answers) have stopped
    \* monitor-indexes task (monitor_indexes.rs:43-45)
    schema_version, \* `schema_version`: cached SchemaVersion (0 is None)
    indexes,        \* `indexes`: the local set of live metadata
    mon_pc,         \* position of the task in its loop
    rx_closed,      \* every Sender<MonitorIndexes> has been dropped
    tick,           \* the tick arm's locals and what it sent, until the loop iterates
    \* engine (the mock of monitor_indexes.rs:390-414)
    engine_indexes, \* IndexIds the engine holds
    \* a user of InvariantKey (invariant_key.rs)
    values,         \* the Vec<CqlValue> given to InvariantKey::new
    data,           \* `data`: the key's byte buffer
    key_pc,         \* position of the user: new, get, iter, done, panicked
    got,            \* what get(0), get(1), ... returned so far
    iter,           \* InvariantKeyIter: `offset` and `remaining`
    collected,      \* what the iterator's next() returned so far
    pushed,         \* push calls made on an InvariantKeyBuilder
    other,          \* a second InvariantKey: its values and its `data`
    fed,            \* what hash_prefix and Hash::hash wrote to a Hasher
    \* one HTTP request to an index route (httproutes.rs)
    req,            \* the request and what the engine knows of its index
    http_pc,        \* position of the handler
    reply,          \* what index.ann() / index.count() returned
    resp,           \* the status code of the response (0: none yet)
    passed,         \* the messages the handler sent to the index
    observed,       \* the labels of the latency observations recorded
    \* the mailbox of one index and the tasks that hold its Sender (actor.rs)
    mbox,           \* the mpsc channel of Index messages, oldest first
    mbox_closed,    \* the index has dropped its Receiver
    received,       \* the messages the index has received, in order
    tasks,          \* per task: its calls, the next one, and where it waits
    \* a get_status call on the node-state actor (node_state.rs:47-54, 86-90)
    ask,            \* the call: where it is, the status it must see, its reply
    ns_alive,       \* the actor's task is running
    \* two IndexIds and the names they were built from (lib.rs:53-67)
    ident,
    \* the process at shutdown (main.rs, lib.rs:406-422)
    down,           \* the signal, and the components in the order they stopped
    \* the full scans of the indexes the engine holds
    scans,          \* metadata whose full scan has finished
    \* one call of add_indexes (monitor_indexes.rs:176-198)
    adding,         \* the stream's items, the request in flight, the result
    \* callers of IndexExt::ann / count on one index (index/actor.rs:88-103)
    call,           \* the callers, the index's mailbox, the index itself
    \* the RPC server task and its connection handlers (rpcserver.rs)
    rpc

node_vars == <<status, idxs, ns_queue, client>>

db_vars == <<db_indexes, db_schema, healthy>>

mon_vars == <<schema_version, indexes, mon_pc, rx_closed, tick, engine_indexes>>

pair_vars == <<other, fed>>

http_vars == <<req, http_pc, reply, resp, passed, observed>>

mbox_vars == <<mbox, mbox_closed, received, tasks>>

ask_vars == <<ask, ns_alive>>

more_vars == <<adding, call, rpc>>

misc_vars == <<ask_vars, ident, down, scans, more_vars>>

api_vars == <<http_vars, mbox_vars, misc_vars>>

key_vars == <<values, data, key_pc, got, iter, collected, pushed, pair_vars, api_vars>>

vars == <<node_vars, db_vars, mon_vars, key_vars>>

-----------------------------------------------------------------------------
(* Bounds of the model *)

\* messages a sender may leave unprocessed in the node-state mailbox
MaxInFlight == 2

\* schema-change tokens the database goes through
MaxSchema == 2

\* length of the value sequences enumerated in full
MaxLen == 2

\* length of the value sequences compared in pairs
MaxPairLen == 2

\* the largest dimension of an index
MaxDim == 3

\* the most primary-key columns of an index
MaxCols == 2

\* the most keys a search returns
MaxKeys == 2

\* the most calls a task makes on an index handle
MaxOps == 2

\* the capacity of the mailbox of an index
MaxMailbox == 2

\* the longest keyspace or index name
MaxNameLen == 2

\* the most index actors alive at shutdown
MaxIndexActors == 2

\* the most indexes one call of add_indexes is given
MaxAdds == 3

\* the tasks that call ann / count on one index, and the messages its mailbox
\* holds in the model
MaxCallers == 2
MaxCallQueue == 1

\* the connections made to the RPC server, the Senders of its input channel
\* and the Stop messages sent to it
MaxConns == 2
MaxSenders == 1
MaxStops == 1

-----------------------------------------------------------------------------
(* Data model *)

\* node_state.rs:57  const CHANNEL_SIZE: usize = 10;
CHANNEL_SIZE == 10

IndexIds == {"A", "B"}

IndexVersions == {1, 2}

\* IndexMetadata: equality and hash over all fields; `id()` is (keyspace, index)
\* and `version` tells two declarations of the same index apart.
Metadata == [id : IndexIds, version : IndexVersions]

Id(m) == m.id

Ids(S) == {Id(m) : m \in S}

\* sets of metadata in which every IndexId occurs at most once
IndexSets == {S \in SUBSET Metadata : \A m, n \in S : Id(m) = Id(n) => m = n}

\* enum Status, in declaration order
Statuses ==
    <<"Initializing", "ConnectingToDb", "DiscoveringIndexes",
      "IndexingEmbeddings", "Serving">>

StatusSet == {Statuses[i] : i \in 1..Len(Statuses)}

\* position of a status in the order Initializing < ... < Serving
Rank(s) == CHOOSE i \in 1..Len(Statuses) : Statuses[i] = s

\* enum Event, wrapped in NodeState::SendEvent; `indexes` carries the payload
\* (the discovered set, or the one finished metadata)
Ev(type, S) == [type |-> type, indexes |-> S]

EvConnectingToDb == Ev("ConnectingToDb", {})

EvConnectedToDb == Ev("ConnectedToDb", {})

EvDiscoveringIndexes == Ev("DiscoveringIndexes", {})

EvIndexesDiscovered(S) == Ev("IndexesDiscovered", S)

EvFullScanFinished(m) == Ev("FullScanFinished", {m})

Events ==
    {EvConnectingToDb, EvConnectedToDb, EvDiscoveringIndexes}
        \cup {EvIndexesDiscovered(S) : S \in IndexSets}
        \cup {EvFullScanFinished(m) : m \in Metadata}

-----------------------------------------------------------------------------
(* Node-state actor *)

\* Variants of the match over Event.  CheckBeforeRemove tests
\* idxs.is_empty() before idxs.remove(); AlwaysStore assigns idxs outside the
\* test of the status; ConnectedAdvances gives ConnectedToDb an effect.
OnEvent_CheckBeforeRemove(st, ix, e) ==
    CASE e.type = "ConnectingToDb" ->
            [status |-> "ConnectingToDb", idxs |-> ix]
      [] e.type = "ConnectedToDb" ->
            [status |-> st, idxs |-> ix]
      [] e.type = "DiscoveringIndexes" ->
            [status |-> "DiscoveringIndexes", idxs |-> ix]
      [] e.type = "IndexesDiscovered" ->
            IF st = "DiscoveringIndexes"
                THEN [status |-> "IndexingEmbeddings", idxs |-> e.indexes]
                ELSE [status |-> st, idxs |-> ix]
      [] e.type = "FullScanFinished" ->
            [status |-> IF ix = {} THEN "Serving" ELSE st, idxs |-> ix \ e.indexes]

OnEvent_AlwaysStore(st, ix, e) ==
    CASE e.type = "ConnectingToDb" ->
            [status |-> "ConnectingToDb", idxs |-> ix]
      [] e.type = "ConnectedToDb" ->
            [status |-> st, idxs |-> ix]
      [] e.type = "DiscoveringIndexes" ->
            [status |-> "DiscoveringIndexes", idxs |-> ix]
      [] e.type = "IndexesDiscovered" ->
            [status |-> IF st = "DiscoveringIndexes" THEN "IndexingEmbeddings" ELSE st,
             idxs |-> e.indexes]
      [] e.type = "FullScanFinished" ->
            LET left == ix \ e.indexes
            IN  [status |-> IF left = {} THEN "Serving" ELSE st, idxs |-> left]

OnEvent_ConnectedAdvances(st, ix, e) ==
    CASE e.type = "ConnectingToDb" ->
            [status |-> "ConnectingToDb", idxs |-> ix]
      [] e.type = "ConnectedToDb" ->
            [status |-> "DiscoveringIndexes", idxs |-> ix]
      [] e.type = "DiscoveringIndexes" ->
            [status |-> "DiscoveringIndexes", idxs |-> ix]
      [] e.type = "IndexesDiscovered" ->
            IF st = "DiscoveringIndexes"
                THEN [status |-> "IndexingEmbeddings", idxs |-> e.indexes]
                ELSE [status |-> st, idxs |-> ix]
      [] e.type = "FullScanFinished" ->
            LET left == ix \ e.indexes
            IN  [status |-> IF left = {} THEN "Serving" ELSE st, idxs |-> left]

\* the match over Event: the actor's state after one event
OnEvent(st, ix, e) ==
    CASE e.type = "ConnectingToDb" ->
            [status |-> "ConnectingToDb", idxs |-> ix]
      [] e.type = "ConnectedToDb" ->
            [status |-> st, idxs |-> ix]
      [] e.type = "DiscoveringIndexes" ->
            [status |-> "DiscoveringIndexes", idxs |-> ix]
      [] e.type = "IndexesDiscovered" ->
            IF st = "DiscoveringIndexes"
                THEN [status |-> "IndexingEmbeddings", idxs |-> e.indexes]
                ELSE [status |-> st, idxs |-> ix]
      [] e.type = "FullScanFinished" ->
            LET left == ix \ e.indexes
            IN  [status |-> IF left = {} THEN "Serving" ELSE st, idxs |-> left]

\* Sender::send on the bounded mailbox: waits while the mailbox is full
CanSend(n) ==
    /\ Len(ns_queue) + n <= CHANNEL_SIZE
    /\ Len(ns_queue) + n <= MaxInFlight

\* one iteration of `while let Some(msg) = rx.recv().await`
NsRecv ==
    /\ ns_alive
    /\ ns_queue # <<>>
    /\ Head(ns_queue).type # "GetStatus"
    /\ LET r == OnEvent(status, idxs, Head(ns_queue))
       IN  /\ status' = r.status
           /\ idxs' = r.idxs
    /\ ns_queue' = Tail(ns_queue)
    /\ UNCHANGED <<client, db_vars, mon_vars>>

-----------------------------------------------------------------------------
(* A client of the actor: any events, then the resolution script            *)
(* DiscoveringIndexes, IndexesDiscovered(S), FullScanFinished(m) for m in S *)

ClientFree == [phase |-> "free", S |-> {}, left |-> {}]

\* send_event with an arbitrary event
ClientSend(e) ==
    /\ client.phase = "free"
    /\ CanSend(1)
    /\ ns_queue' = Append(ns_queue, e)
    /\ UNCHANGED <<status, idxs, client, db_vars, mon_vars>>

\* node_state.send_event(Event::DiscoveringIndexes)
ClientDiscovering ==
    /\ client.phase = "free"
    /\ CanSend(1)
    /\ ns_queue' = Append(ns_queue, EvDiscoveringIndexes)
    /\ client' = [phase |-> "discovering", S |-> {}, left |-> {}]
    /\ UNCHANGED <<status, idxs, db_vars, mon_vars>>

\* node_state.send_event(Event::IndexesDiscovered(idxs))
ClientDiscovered(S) ==
    /\ client.phase = "discovering"
    /\ CanSend(1)
    /\ ns_queue' = Append(ns_queue, EvIndexesDiscovered(S))
    /\ client' = [phase |-> "scanning", S |-> S, left |-> S]
    /\ UNCHANGED <<status, idxs, db_vars, mon_vars>>

\* node_state.send_event(Event::FullScanFinished(idx))
ClientFinished(m) ==
    /\ client.phase = "scanning"
    /\ m \in client.left
    /\ CanSend(1)
    /\ ns_queue' = Append(ns_queue, EvFullScanFinished(m))
    /\ client' = [client EXCEPT !.left = @ \ {m}]
    /\ UNCHANGED <<status, idxs, db_vars, mon_vars>>

\* the script is over; the client sends arbitrary events again
ClientRestart ==
    /\ client.phase = "scanning"
    /\ client.left = {}
    /\ ns_queue = <<>>
    /\ client' = ClientFree
    /\ UNCHANGED <<status, idxs, ns_queue, db_vars, mon_vars>>

\* NodeState::GetStatus(tx)
EvGetStatus == Ev("GetStatus", {})

\* the state the actor is in once it has received the messages of q
RECURSIVE AfterQueue(_, _, _)
AfterQueue(st, ix, q) ==
    IF q = <<>> THEN [status |-> st, idxs |-> ix]
    ELSE IF Head(q).type = "GetStatus" THEN AfterQueue(st, ix, Tail(q))
    ELSE LET r == OnEvent(st, ix, Head(q))
         IN  AfterQueue(r.status, r.idxs, Tail(q))

\* get_status up to its send: the request joins the mailbox.  `expect` is
\* the status after the messages sent before it.
ClientGetStatus ==
    /\ ask.phase \in {"none", "answered", "lost"}
    /\ CanSend(1)
    /\ ns_queue' = Append(ns_queue, EvGetStatus)
    /\ ask' = [phase |-> "waiting",
               expect |-> AfterQueue(status, idxs, ns_queue).status,
               reply |-> "none"]
    /\ UNCHANGED <<status, idxs, client, ns_alive, db_vars, mon_vars>>

\* the task that awaits get_status is dropped: so is its oneshot Receiver
ClientDropAsk ==
    /\ ask.phase = "waiting"
    /\ ask' = [ask EXCEPT !.phase = "dropped"]
    /\ UNCHANGED <<status, idxs, ns_queue, client, ns_alive, db_vars, mon_vars>>

\* the GetStatus arm: tx.send(status), with unwrap_or_else on its failure.
\* The variant unwraps the result of the send.
OnGetStatus_Unwrap(st, dropped) == [reply |-> st, alive |-> ~dropped]
OnGetStatus(st, dropped) == [reply |-> st, alive |-> TRUE]

\* one iteration of the actor's loop on a GetStatus message
NsGetStatus ==
    /\ ns_alive
    /\ ns_queue # <<>>
    /\ Head(ns_queue).type = "GetStatus"
    /\ LET r == OnGetStatus(status, ask.phase = "dropped")
       IN  /\ ask' = IF ask.phase = "dropped"
                     THEN [ask EXCEPT !.phase = "lost"]
                     ELSE [ask EXCEPT !.phase = "answered", !.reply = r.reply]
           /\ ns_alive' = r.alive
    /\ ns_queue' = Tail(ns_queue)
    /\ UNCHANGED <<status, idxs, client, db_vars, mon_vars>>

\* every event of the script has been sent and processed
Resolved ==
    /\ client.phase = "scanning"
    /\ client.left = {}
    /\ ns_queue = <<>>

-----------------------------------------------------------------------------
(* The database, as the Db actor answers the monitor's queries *)

\* SchemaVersion(None): no cached schema version
NoVersion == 0

\* a declared custom index (DbCustomIndex) with what its metadata queries
\* resolve to: its version, and whether it is usable (it has a version, a
\* supported target type and passes is_valid_index)
DbIndexes == [id : IndexIds, version : IndexVersions, usable : BOOLEAN]

DbStates ==
    {S \in SUBSET DbIndexes :
        /\ \A d, e \in S : d.id = e.id => d = e
        /\ \A d \in S : ~d.usable => d.version = 1}

\* the IndexMetadata get_indexes builds for a declared index
Meta(d) == [id |-> d.id, version |-> d.version]

\* the path one declared index takes through the loop body of get_indexes:
\*   "ok"   every query answered, is_valid_index true: the metadata is inserted
\*   "none" get_index_version or get_index_target_type answered Ok(None), or
\*          is_valid_index false: `continue`
\*   "err"  get_index_version, get_index_target_type or get_index_params
\*          answered Err: the `?` returns it from get_indexes
QueryPaths == {"ok", "none", "err"}

\* the paths on which a query returned Err
ErrPaths == {"err"}

\* the paths a declared index takes when no query fails
PathsOf(d) == IF d.usable THEN {"ok"} ELSE {"none"}

\* answers of latest_schema_version: the token, or Err / Ok(None)
SchemaAnswers == {db_schema, NoVersion}

\* a schema change in the database: the declared indexes change and the
\* schema token advances
DbChange ==
    /\ db_schema < MaxSchema
    /\ db_schema' = db_schema + 1
    /\ \E S \in DbStates : S # db_indexes /\ db_indexes' = S
    /\ UNCHANGED <<healthy, node_vars, mon_vars>>

-----------------------------------------------------------------------------
(* Messages the monitor sends, in one shape *)

DelIndex(id) ==
    [to |-> "engine", op |-> "DelIndex", id |-> id, version |-> 0,
     ok |-> TRUE, indexes |-> {}]

\* AddIndex with the engine's reply (ok: Ok(()), ~ok: Err)
AddIndex(m, ok) ==
    [to |-> "engine", op |-> "AddIndex", id |-> m.id, version |-> m.version,
     ok |-> ok, indexes |-> {}]

SendEvent(e) ==
    [to |-> "node_state", op |-> e.type, id |-> "", version |-> 0,
     ok |-> TRUE, indexes |-> e.indexes]

\* orders in which a HashSet can be iterated
Orders(S) ==
    {q \in [1..Cardinality(S) -> S] : \A i, j \in DOMAIN q : q[i] = q[j] => i = j}

\* the messages of a trace that satisfy a test, in order
RECURSIVE SelectMsgs(_, _, _)
SelectMsgs(trace, to, op) ==
    IF trace = <<>> THEN <<>>
    ELSE LET rest == SelectMsgs(Tail(trace), to, op)
         IN  IF Head(trace).to = to /\ (op = "" \/ Head(trace).op = op)
                 THEN <<Head(trace)>> \o rest
                 ELSE rest

EngineMsgs(trace) == SelectMsgs(trace, "engine", "")

NodeEvents(trace) == SelectMsgs(trace, "node_state", "")

-----------------------------------------------------------------------------
(* Engine: applies AddIndex / DelIndex in the order received *)

EngineOn(E, msg) ==
    CASE msg.op = "AddIndex" -> IF msg.ok THEN E \cup {msg.id} ELSE E
      [] msg.op = "DelIndex" -> E \ {msg.id}
      [] OTHER -> E

RECURSIVE EngineApply(_, _)
EngineApply(E, msgs) ==
    IF msgs = <<>> THEN E
    ELSE EngineApply(EngineOn(E, Head(msgs)), Tail(msgs))

-----------------------------------------------------------------------------
(* Monitor-indexes task *)

\* SchemaVersion::has_changed: compare the fetched value with the cached one;
\* the variant reports a change on every tick
HasChanged_Always(cached, fetched) == TRUE
\* a variant that takes a failed query (None) for "no change"
HasChanged_IgnoreFailure(cached, fetched) ==
    fetched # cached /\ fetched # NoVersion
HasChanged(cached, fetched) == fetched # cached

\* get_indexes: Err when the list query or any per-index query returned Err
\* (the `?` after each query), else the metadata of the indexes not skipped
RECURSIVE GetIndexesLoop(_, _, _)
GetIndexesLoop(todo, path, acc) ==
    IF todo = {} THEN [ok |-> TRUE, indexes |-> acc]
    ELSE LET d == CHOOSE x \in todo : TRUE
         IN  IF path[d.id] \in ErrPaths
                 THEN [ok |-> FALSE, indexes |-> {}]
                 ELSE IF path[d.id] = "ok"
                     THEN GetIndexesLoop(todo \ {d}, path, acc \cup {Meta(d)})
                     ELSE GetIndexesLoop(todo \ {d}, path, acc)

\* a variant that answers Ok with what it could resolve when a query fails
GetIndexes_Partial(declared, list_ok, path) ==
    [ok |-> TRUE,
     indexes |-> IF list_ok THEN {Meta(d) : d \in {x \in declared : path[x.id] = "ok"}}
                 ELSE {}]
GetIndexes(declared, list_ok, path) ==
    IF ~list_ok THEN [ok |-> FALSE, indexes |-> {}]
    ELSE GetIndexesLoop(declared, path, {})

\* indexes.extract_if(|idx| !new_indexes.contains(idx)); the variant extracts
\* every local metadata
DelSet_All(local, new) == local
DelSet(local, new) == {m \in local : m \notin new}

\* new_indexes.into_iter().filter(|idx| !indexes.contains(idx))
AddSet(local, new) == {m \in new : m \notin local}

\* del_indexes: one DelIndex(idx.id()) per extracted metadata
DelMsgs(delq) == [i \in DOMAIN delq |-> DelIndex(Id(delq[i]))]

\* add_indexes: one AddIndex per metadata, with the engine's reply
AddMsgs(addq, okset) == [i \in DOMAIN addq |-> AddIndex(addq[i], addq[i] \in okset)]

\* what the tick arm sends once get_indexes has returned Ok(new), in order;
\* the variant calls add_indexes before del_indexes
TickTrace_AddFirst(new, delq, addq, okset) ==
    <<SendEvent(EvDiscoveringIndexes), SendEvent(EvIndexesDiscovered(new))>>
        \o AddMsgs(addq, okset) \o DelMsgs(delq)
TickTrace(new, delq, addq, okset) ==
    <<SendEvent(EvDiscoveringIndexes), SendEvent(EvIndexesDiscovered(new))>>
        \o DelMsgs(delq) \o AddMsgs(addq, okset)

\* the local set after the tick: what was kept, plus what was added; the
\* variant keeps what del_indexes removed
LocalAfter_KeepRemoved(local, new, okset) == local \cup okset
LocalAfter(local, new, okset) == (local \ DelSet(local, new)) \cup okset

\* the cached version after the tick: reset when any add failed; the variant
\* keeps the fetched version
VersionAfter_Keep(fetched, has_failures) == fetched
VersionAfter(fetched, has_failures) ==
    IF has_failures THEN NoVersion ELSE fetched

NoTick ==
    [result |-> "none", fetched |-> NoVersion, errs |-> {}, new |-> {},
     trace |-> <<>>]

\* the loop condition `!rx.is_closed()` fails; the variant never ends the loop
LoopExits_Never(closed) == FALSE
LoopExits(closed) == closed

\* `while !rx.is_closed()`: the arm's locals are dropped, the loop goes on
\* or ends
MonCheck ==
    /\ mon_pc = "check"
    /\ mon_pc' = IF LoopExits(rx_closed) THEN "done" ELSE "select"
    /\ tick' = NoTick
    /\ UNCHANGED <<schema_version, indexes, rx_closed, engine_indexes,
                   node_vars, db_vars>>

\* select!: interval.tick() completes
MonSelectTick ==
    /\ mon_pc = "select"
    /\ mon_pc' = "tick"
    /\ UNCHANGED <<schema_version, indexes, rx_closed, tick, engine_indexes,
                   node_vars, db_vars>>

\* select!: rx.recv() completes; MonitorIndexes has no values, so only with
\* None once every sender is dropped
MonSelectRecv ==
    /\ mon_pc = "select"
    /\ rx_closed
    /\ mon_pc' = "check"
    /\ UNCHANGED <<schema_version, indexes, rx_closed, tick, engine_indexes,
                   node_vars, db_vars>>

\* the last Sender<MonitorIndexes> is dropped
DropSenders ==
    /\ ~rx_closed
    /\ rx_closed' = TRUE
    /\ UNCHANGED <<schema_version, indexes, mon_pc, tick, engine_indexes,
                   node_vars, db_vars>>

\* the environment answers with a failure only until the failures stop
FaultStep(faulty) == faulty => ~healthy

\* the transient failures stop for good
Heal ==
    /\ ~healthy
    /\ healthy' = TRUE
    /\ UNCHANGED <<db_indexes, db_schema, node_vars, mon_vars>>

\* the tick arm, schema unchanged: `continue`
TickUnchanged(fetched) ==
    /\ ~HasChanged(schema_version, fetched)
    /\ FaultStep(fetched = NoVersion /\ db_schema # NoVersion)
    /\ tick' = [result |-> "unchanged", fetched |-> fetched, errs |-> {},
                new |-> {}, trace |-> <<>>]
    /\ UNCHANGED <<schema_version, indexes, engine_indexes, ns_queue>>

\* the tick arm, get_indexes failed: reset the schema version, `continue`
TickEnumFailed(fetched, list_ok, path) ==
    /\ HasChanged(schema_version, fetched)
    /\ ~GetIndexes(db_indexes, list_ok, path).ok
    /\ FaultStep(TRUE)
    /\ CanSend(1)
    /\ ns_queue' = Append(ns_queue, EvDiscoveringIndexes)
    /\ schema_version' = NoVersion
    /\ tick' = [result |-> "enum_failed", fetched |-> fetched,
                errs |-> {i \in DOMAIN path : path[i] \in ErrPaths}
                            \cup (IF list_ok THEN {} ELSE {"*"}),
                new |-> {},
                trace |-> <<SendEvent(EvDiscoveringIndexes)>>]
    /\ UNCHANGED <<indexes, engine_indexes>>

\* the tick arm, get_indexes returned Ok(new): reconcile
TickReconcile(fetched, list_ok, path) ==
    /\ HasChanged(schema_version, fetched)
    /\ GetIndexes(db_indexes, list_ok, path).ok
    /\ LET new == GetIndexes(db_indexes, list_ok, path).indexes
           dels == DelSet(indexes, new)
           adds == AddSet(indexes \ dels, new)
       IN  \E delq \in Orders(dels), addq \in Orders(adds), okset \in SUBSET adds :
             LET trace == TickTrace(new, delq, addq, okset)
             IN  /\ FaultStep(fetched = NoVersion \/ okset # adds)
                 /\ CanSend(Len(NodeEvents(trace)))
                 /\ ns_queue' = ns_queue \o
                        [i \in DOMAIN NodeEvents(trace) |->
                            Ev(NodeEvents(trace)[i].op, NodeEvents(trace)[i].indexes)]
                 /\ engine_indexes' = EngineApply(engine_indexes, EngineMsgs(trace))
                 /\ indexes' = LocalAfter(indexes, new, okset)
                 /\ schema_version' = VersionAfter(fetched, okset # adds)
                 /\ tick' = [result |-> "reconciled", fetched |-> fetched,
                             errs |-> {}, new |-> new, trace |-> trace]

\* the body of the `interval.tick()` arm, monitor_indexes.rs:47-77
MonTickBody ==
    /\ mon_pc = "tick"
    /\ mon_pc' = "check"
    /\ \E fetched \in SchemaAnswers :
         \/ TickUnchanged(fetched)
         \/ \E list_ok \in BOOLEAN, path \in [Ids(db_indexes) -> QueryPaths] :
              /\ \A d \in db_indexes : path[d.id] \in PathsOf(d) \cup ErrPaths
              /\ \/ TickEnumFailed(fetched, list_ok, path)
                 \/ TickReconcile(fetched, list_ok, path)
    /\ UNCHANGED <<rx_closed, status, idxs, client, db_vars>>

-----------------------------------------------------------------------------
(* InvariantKey: the compact encoding of a vector of CQL values *)

TAG_EMPTY == 0
TAG_BOOLEAN == 1
TAG_TINY_INT == 2
TAG_SMALL_INT == 3
TAG_INT == 4
TAG_BIG_INT == 5
TAG_FLOAT == 6
TAG_DOUBLE == 7
TAG_TEXT == 8
TAG_ASCII == 9
TAG_UUID == 10
TAG_TIMEUUID == 11
TAG_DATE == 12
TAG_TIME == 13
TAG_TIMESTAMP == 14
TAG_INET_V4 == 15
TAG_INET_V6 == 16
TAG_COUNTER == 17
TAG_BLOB == 18

COUNT_SIZE == 1
TAG_SIZE == 1
VAR_LEN_SIZE == 4
DATA_OFFSET == TAG_SIZE
VAR_DATA_OFFSET == TAG_SIZE + VAR_LEN_SIZE
BYTE_SIZE == 1
IPV4_SIZE == 4
UUID_SIZE == 16

\* InvariantKey::MAX_COLUMNS = u8::MAX
MAX_COLUMNS == 255

Bytes == 0..255

\* A CqlValue of a supported variant.  `num` is the number of a variant of at
\* most 32 bits (Boolean: 0 or 1; Float: the bit pattern, f32::to_bits).
\* `bytes` is the content of a string, blob, uuid or address, and for the
\* 64-bit variants (BigInt, Double, Time, Timestamp, Counter) the four 16-bit
\* words of the two's-complement / IEEE bit pattern, most significant first.
Cql(kind, num, bytes) == [kind |-> kind, num |-> num, bytes |-> bytes]

\* Option::None, and the payload of a panic
None == Cql("None", 0, <<>>)

Panicked == Cql("panic", 0, <<>>)

Kinds32 == {"TinyInt", "SmallInt", "Int", "Float", "Date"}

Kinds64 == {"BigInt", "Double", "Time", "Timestamp", "Counter"}

KindsRaw == {"Uuid", "Timeuuid", "InetV4", "InetV6"}

KindsVar == {"Text", "Ascii", "Blob"}

\* the tag encode_value pushes for a variant; the variant of this operator
\* gives a Blob the tag of a Text
TagOf_BlobAsText(kind) ==
    CASE kind = "Empty" -> TAG_EMPTY
      [] kind = "Boolean" -> TAG_BOOLEAN
      [] kind = "TinyInt" -> TAG_TINY_INT
      [] kind = "SmallInt" -> TAG_SMALL_INT
      [] kind = "Int" -> TAG_INT
      [] kind = "BigInt" -> TAG_BIG_INT
      [] kind = "Float" -> TAG_FLOAT
      [] kind = "Double" -> TAG_DOUBLE
      [] kind = "Text" -> TAG_TEXT
      [] kind = "Ascii" -> TAG_ASCII
      [] kind = "Uuid" -> TAG_UUID
      [] kind = "Timeuuid" -> TAG_TIMEUUID
      [] kind = "Date" -> TAG_DATE
      [] kind = "Time" -> TAG_TIME
      [] kind = "Timestamp" -> TAG_TIMESTAMP
      [] kind = "InetV4" -> TAG_INET_V4
      [] kind = "InetV6" -> TAG_INET_V6
      [] kind = "Counter" -> TAG_COUNTER
      [] kind = "Blob" -> TAG_TEXT
TagOf(kind) ==
    CASE kind = "Empty" -> TAG_EMPTY
      [] kind = "Boolean" -> TAG_BOOLEAN
      [] kind = "TinyInt" -> TAG_TINY_INT
      [] kind = "SmallInt" -> TAG_SMALL_INT
      [] kind = "Int" -> TAG_INT
      [] kind = "BigInt" -> TAG_BIG_INT
      [] kind = "Float" -> TAG_FLOAT
      [] kind = "Double" -> TAG_DOUBLE
      [] kind = "Text" -> TAG_TEXT
      [] kind = "Ascii" -> TAG_ASCII
      [] kind = "Uuid" -> TAG_UUID
      [] kind = "Timeuuid" -> TAG_TIMEUUID
      [] kind = "Date" -> TAG_DATE
      [] kind = "Time" -> TAG_TIME
      [] kind = "Timestamp" -> TAG_TIMESTAMP
      [] kind = "InetV4" -> TAG_INET_V4
      [] kind = "InetV6" -> TAG_INET_V6
      [] kind = "Counter" -> TAG_COUNTER
      [] kind = "Blob" -> TAG_BLOB

\* the variant decode_value builds for a tag; the variant of this operator
\* decodes an Ascii as a Text
KindOfTag_AsciiAsText(tag) ==
    CASE tag = TAG_EMPTY -> "Empty"
      [] tag = TAG_BOOLEAN -> "Boolean"
      [] tag = TAG_TINY_INT -> "TinyInt"
      [] tag = TAG_SMALL_INT -> "SmallInt"
      [] tag = TAG_INT -> "Int"
      [] tag = TAG_BIG_INT -> "BigInt"
      [] tag = TAG_FLOAT -> "Float"
      [] tag = TAG_DOUBLE -> "Double"
      [] tag \in {TAG_TEXT, TAG_ASCII} -> "Text"
      [] tag = TAG_UUID -> "Uuid"
      [] tag = TAG_TIMEUUID -> "Timeuuid"
      [] tag = TAG_DATE -> "Date"
      [] tag = TAG_TIME -> "Time"
      [] tag = TAG_TIMESTAMP -> "Timestamp"
      [] tag = TAG_INET_V4 -> "InetV4"
      [] tag = TAG_INET_V6 -> "InetV6"
      [] tag = TAG_COUNTER -> "Counter"
      [] tag = TAG_BLOB -> "Blob"
      [] OTHER -> "panic"
KindOfTag(tag) ==
    CASE tag = TAG_EMPTY -> "Empty"
      [] tag = TAG_BOOLEAN -> "Boolean"
      [] tag = TAG_TINY_INT -> "TinyInt"
      [] tag = TAG_SMALL_INT -> "SmallInt"
      [] tag = TAG_INT -> "Int"
      [] tag = TAG_BIG_INT -> "BigInt"
      [] tag = TAG_FLOAT -> "Float"
      [] tag = TAG_DOUBLE -> "Double"
      [] tag = TAG_TEXT -> "Text"
      [] tag = TAG_ASCII -> "Ascii"
      [] tag = TAG_UUID -> "Uuid"
      [] tag = TAG_TIMEUUID -> "Timeuuid"
      [] tag = TAG_DATE -> "Date"
      [] tag = TAG_TIME -> "Time"
      [] tag = TAG_TIMESTAMP -> "Timestamp"
      [] tag = TAG_INET_V4 -> "InetV4"
      [] tag = TAG_INET_V6 -> "InetV6"
      [] tag = TAG_COUNTER -> "Counter"
      [] tag = TAG_BLOB -> "Blob"
      [] OTHER -> "panic"

\* size_of the number a 32-bit variant holds: i8, i16, i32, f32, u32
Width(kind) ==
    CASE kind = "TinyInt" -> 1
      [] kind = "SmallInt" -> 2
      [] kind \in {"Int", "Float", "Date"} -> 4

\* the variants whose number is signed
Signed(kind) == kind \in {"TinyInt", "SmallInt", "Int"}

\* the payload size of the variants stored as they are
RawSize(kind) == IF kind = "InetV4" THEN IPV4_SIZE ELSE UUID_SIZE

\* to_le_bytes of an integer of n bytes (two's complement)
RECURSIVE ToLeBytes(_, _)
ToLeBytes(v, n) ==
    IF n = 0 THEN <<>> ELSE <<v % 256>> \o ToLeBytes(v \div 256, n - 1)

\* from_le_bytes, from the most significant byte down
RECURSIVE FromLeAcc(_, _)
FromLeAcc(bytes, acc) ==
    IF bytes = <<>> THEN acc
    ELSE FromLeAcc(SubSeq(bytes, 1, Len(bytes) - 1), acc * 256 + bytes[Len(bytes)])

FromLeBytes(bytes, signed) ==
    LET top == bytes[Len(bytes)]
    IN  FromLeAcc(SubSeq(bytes, 1, Len(bytes) - 1),
                  IF signed /\ top >= 128 THEN top - 256 ELSE top)

\* to_le_bytes / from_le_bytes of a 64-bit pattern given as four 16-bit words
WordsToLe(words) ==
    [i \in 1..8 |->
        LET w == words[4 - ((i - 1) \div 2)]
        IN  IF i % 2 = 1 THEN w % 256 ELSE w \div 256]

LeToWords(bytes) ==
    [k \in 1..4 |-> bytes[2 * (4 - k) + 2] * 256 + bytes[2 * (4 - k) + 1]]

\* `&data[offset..]`
Rest(d, offset) == SubSeq(d, offset + 1, Len(d))

\* `data[offset..offset + n]`
Slice(d, offset, n) == SubSeq(d, offset + 1, offset + n)

\* the variants encode_value accepts; any other goes to unsupported()
Supported(v) ==
    v.kind \in {"Empty", "Boolean"} \cup Kinds32 \cup Kinds64 \cup KindsRaw \cup KindsVar

\* encode_value: the bytes pushed for a supported value
EncodeValue(v) ==
    CASE v.kind = "Empty" -> <<TAG_EMPTY>>
      [] v.kind = "Boolean" -> <<TAG_BOOLEAN, v.num>>
      [] v.kind \in Kinds32 -> <<TagOf(v.kind)>> \o ToLeBytes(v.num, Width(v.kind))
      [] v.kind \in Kinds64 -> <<TagOf(v.kind)>> \o WordsToLe(v.bytes)
      [] v.kind \in KindsVar ->
            <<TagOf(v.kind)>> \o ToLeBytes(Len(v.bytes), VAR_LEN_SIZE) \o v.bytes
      [] v.kind \in KindsRaw -> <<TagOf(v.kind)>> \o v.bytes

\* encoded_size: the bytes encode reserves for a supported value
EncodedSize(v) ==
    CASE v.kind = "Empty" -> TAG_SIZE
      [] v.kind \in {"Boolean", "TinyInt"} -> TAG_SIZE + BYTE_SIZE
      [] v.kind = "SmallInt" -> TAG_SIZE + 2
      [] v.kind \in {"Int", "Float", "Date"} -> TAG_SIZE + 4
      [] v.kind \in Kinds64 -> TAG_SIZE + 8
      [] v.kind \in {"Uuid", "Timeuuid"} -> TAG_SIZE + UUID_SIZE
      [] v.kind = "InetV4" -> TAG_SIZE + IPV4_SIZE
      [] v.kind = "InetV6" -> TAG_SIZE + UUID_SIZE
      [] v.kind \in KindsVar -> TAG_SIZE + VAR_LEN_SIZE + Len(v.bytes)

\* the capacity encode asks for: COUNT_SIZE and the sum of encoded_size
RECURSIVE Capacity(_)
Capacity(vs) ==
    IF vs = <<>> THEN COUNT_SIZE
    ELSE EncodedSize(vs[1]) + Capacity(SubSeq(vs, 2, Len(vs)))

\* InvariantKey::encode: the count byte, then every value (the loop over
\* the values, evaluated by halves)
RECURSIVE EncodeAll(_)
EncodeAll(vs) ==
    IF vs = <<>> THEN <<>>
    ELSE IF Len(vs) = 1 THEN EncodeValue(vs[1])
    ELSE LET h == Len(vs) \div 2
         IN  EncodeAll(SubSeq(vs, 1, h)) \o EncodeAll(SubSeq(vs, h + 1, Len(vs)))

Encode_WithoutCount(vs) == EncodeAll(vs)
Encode(vs) == <<Len(vs) % 256>> \o EncodeAll(vs)

\* read_fixed::<N> and read_var_len
ReadFixed(d, n) == Slice(d, DATA_OFFSET, n)

ReadVarLen(d) == FromLeBytes(Slice(d, DATA_OFFSET, VAR_LEN_SIZE), FALSE)

\* String::from_utf8 accepts the bytes
RECURSIVE Utf8(_)
Utf8(b) ==
    LET cont(i) == i <= Len(b) /\ b[i] \in 128..191
    IN  IF b = <<>> THEN TRUE
        ELSE IF b[1] < 128 THEN Utf8(Rest(b, 1))
        ELSE IF b[1] \in 194..223 THEN cont(2) /\ Utf8(Rest(b, 2))
        ELSE IF b[1] \in 224..239
            THEN /\ cont(2) /\ cont(3)
                 /\ b[1] = 224 => b[2] >= 160
                 /\ b[1] = 237 => b[2] <= 159
                 /\ Utf8(Rest(b, 3))
        ELSE IF b[1] \in 240..244
            THEN /\ cont(2) /\ cont(3) /\ cont(4)
                 /\ b[1] = 240 => b[2] >= 144
                 /\ b[1] = 244 => b[2] <= 143
                 /\ Utf8(Rest(b, 4))
        ELSE FALSE

\* a variant of skip_value that takes a Boolean for a tag without data
SkipValue_BareBoolean(d) ==
    LET kind == KindOfTag(d[1])
    IN  CASE kind \in {"Empty", "Boolean"} -> TAG_SIZE
          [] kind \in Kinds32 -> TAG_SIZE + Width(kind)
          [] kind \in Kinds64 -> TAG_SIZE + 8
          [] kind \in KindsRaw -> TAG_SIZE + RawSize(kind)
          [] kind \in KindsVar -> VAR_DATA_OFFSET + ReadVarLen(d)
          [] OTHER -> -1

\* skip_value: the bytes one encoded value takes, -1 for the panic
SkipValue(d) ==
    LET kind == KindOfTag(d[1])
    IN  CASE kind = "Empty" -> TAG_SIZE
          [] kind = "Boolean" -> TAG_SIZE + BYTE_SIZE
          [] kind \in Kinds32 -> TAG_SIZE + Width(kind)
          [] kind \in Kinds64 -> TAG_SIZE + 8
          [] kind \in KindsRaw -> TAG_SIZE + RawSize(kind)
          [] kind \in KindsVar -> VAR_DATA_OFFSET + ReadVarLen(d)
          [] OTHER -> -1

\* decode_value: (value, bytes consumed)
DecodeValue(d) ==
    LET kind == KindOfTag(d[1])
    IN  CASE kind = "Empty" -> [value |-> Cql(kind, 0, <<>>), consumed |-> TAG_SIZE]
          [] kind = "Boolean" ->
                [value |-> Cql(kind, IF d[DATA_OFFSET + 1] # 0 THEN 1 ELSE 0, <<>>),
                 consumed |-> TAG_SIZE + BYTE_SIZE]
          [] kind \in Kinds32 ->
                [value |-> Cql(kind, FromLeBytes(ReadFixed(d, Width(kind)), Signed(kind)), <<>>),
                 consumed |-> TAG_SIZE + Width(kind)]
          [] kind \in Kinds64 ->
                [value |-> Cql(kind, 0, LeToWords(ReadFixed(d, 8))),
                 consumed |-> TAG_SIZE + 8]
          [] kind \in KindsRaw ->
                [value |-> Cql(kind, 0, ReadFixed(d, RawSize(kind))),
                 consumed |-> TAG_SIZE + RawSize(kind)]
          [] kind \in KindsVar ->
                LET len == ReadVarLen(d)
                    payload == Slice(d, VAR_DATA_OFFSET, len)
                IN  [value |-> IF kind = "Blob" \/ Utf8(payload)
                                   THEN Cql(kind, 0, payload) ELSE Panicked,
                     consumed |-> VAR_DATA_OFFSET + len]
          [] OTHER -> [value |-> Panicked, consumed |-> 0]

\* the loop of get: skip `n` values from `offset` (evaluated by halves);
\* -1 for the panic
RECURSIVE SkipTo(_, _, _)
SkipTo(d, offset, n) ==
    IF n = 0 \/ offset < 0 THEN offset
    ELSE IF n = 1
        THEN LET k == SkipValue(Rest(d, offset))
             IN  IF k < 0 THEN -1 ELSE offset + k
    ELSE SkipTo(d, SkipTo(d, offset, n \div 2), n - (n \div 2))

\* InvariantKey::get: None, Some(value) or a panic
Get(d, index) ==
    IF index >= d[1] THEN None
    ELSE LET offset == SkipTo(d, COUNT_SIZE, index)
         IN  IF offset < 0 THEN Panicked ELSE DecodeValue(Rest(d, offset)).value

NoIter == [offset |-> 0, remaining |-> 0]

\* no second key, nothing written to a hasher
NoKey == [values |-> <<>>, data |-> <<>>]

NoFed == [n |-> 0, a |-> <<>>, b |-> <<>>, full |-> <<>>]

\* what a panicking call leaves instead of bytes
PanicBytes == <<-1>>

\* `impl Hash for [u8]`: the length as a usize, then the bytes
HashSlice(bytes) == ToLeBytes(Len(bytes), 8) \o bytes

\* InvariantKey::hash_prefix: what it writes to the hasher; the assert on
\* n > count panics.  The variant hashes the whole buffer after n.
HashPrefix_WholeKey(d, n) ==
    IF n > d[1] THEN PanicBytes
    ELSE <<n % 256>> \o HashSlice(Rest(d, COUNT_SIZE))
HashPrefix(d, n) ==
    IF n > d[1] THEN PanicBytes
    ELSE LET offset == SkipTo(d, COUNT_SIZE, n)
         IN  <<n % 256>> \o HashSlice(Slice(d, COUNT_SIZE, offset - COUNT_SIZE))

\* the derived Hash of InvariantKey: the whole buffer, as a slice
HashFull(d) == HashSlice(d)

-----------------------------------------------------------------------------
(* A user of InvariantKey: builds a key, reads every index, then iterates *)

Hello == <<104, 101, 108, 108, 111>>

Uuid1 == <<85, 14, 132, 0, 226, 155, 65, 212, 167, 22, 68, 102, 85, 68, 0, 0>>

\* values of every supported variant, and one that is not supported
Samples ==
    << Cql("Empty", 0, <<>>),
       Cql("Boolean", 1, <<>>),
       Cql("Boolean", 0, <<>>),
       Cql("TinyInt", -128, <<>>),
       Cql("TinyInt", 127, <<>>),
       Cql("SmallInt", -256, <<>>),
       Cql("Int", 100000, <<>>),
       Cql("Int", -100000, <<>>),
       Cql("BigInt", 0, <<0, 28, 48793, 6664>>),
       Cql("BigInt", 0, <<65535, 65535, 65535, 65535>>),
       Cql("Counter", 0, <<0, 28, 48793, 6664>>),
       Cql("Time", 0, <<0, 28, 48793, 6664>>),
       Cql("Timestamp", 0, <<0, 28, 48793, 6664>>),
       Cql("Float", 1078530011, <<>>),
       Cql("Float", 2143289344, <<>>),
       Cql("Double", 0, <<16389, 48906, 35604, 22377>>),
       Cql("Double", 0, <<49157, 48906, 35604, 22377>>),
       Cql("Text", 0, Hello),
       Cql("Text", 0, <<>>),
       Cql("Text", 0, <<195, 169>>),
       Cql("Ascii", 0, Hello),
       Cql("Blob", 0, Hello),
       Cql("Blob", 0, <<222, 173, 190, 239>>),
       Cql("Uuid", 0, Uuid1),
       Cql("Timeuuid", 0, Uuid1),
       Cql("Date", 19000, <<>>),
       Cql("InetV4", 0, <<127, 0, 0, 1>>),
       Cql("InetV6", 0, <<0, 0, 0, 0, 0, 0, 0, 0, 0, 0, 0, 0, 0, 0, 0, 1>>),
       Cql("List", 0, <<>>) >>

SupportedSamples == SelectSeq(Samples, Supported)

\* a sequence of n supported values that goes through the samples in turn
LongKey(n) ==
    [i \in 1..n |-> SupportedSamples[((i - 1) % Len(SupportedSamples)) + 1]]

\* the inputs: every sequence of at most MaxLen samples, and the sequences at
\* the limit of the count byte
KeyInputs ==
    UNION {[1..n -> {Samples[i] : i \in DOMAIN Samples}] : n \in 0..MaxLen}
        \cup {LongKey(MAX_COLUMNS), LongKey(MAX_COLUMNS + 1), LongKey(MAX_COLUMNS + 2)}
        \cup {<<Cql("Int", 42, <<>>)>>, <<Cql("Text", 0, <<97, 98, 99>>)>>}

\* `values.len() <= Self::MAX_COLUMNS` fails; the variant lets every length
\* through
TooMany_Never(n) == FALSE
TooMany(n) == n > MAX_COLUMNS

\* the assert of push, `(count as usize) < MAX_COLUMNS`, fails
BuilderFull(count) == ~(count < MAX_COLUMNS)

AllSupported(vs) == \A i \in DOMAIN vs : Supported(vs[i])

\* InvariantKey::new: the assert on the length, then encode
KeyNew ==
    /\ key_pc = "new"
    /\ IF TooMany(Len(values)) \/ ~AllSupported(values)
           THEN key_pc' = "panicked" /\ data' = data
           ELSE key_pc' = "get" /\ data' = Encode(values)
    /\ UNCHANGED <<values, got, iter, collected, pushed>>

\* InvariantKey::try_new: ensure! on the length returns Err, then encode
KeyTryNew ==
    /\ key_pc = "new"
    /\ IF TooMany(Len(values))
           THEN key_pc' = "error" /\ data' = data
           ELSE IF ~AllSupported(values)
               THEN key_pc' = "panicked" /\ data' = data
               ELSE key_pc' = "get" /\ data' = Encode(values)
    /\ UNCHANGED <<values, got, iter, collected, pushed>>

\* InvariantKeyBuilder::new: the count byte, initially 0
KeyBuilderNew ==
    /\ key_pc = "new"
    /\ data' = <<0>>
    /\ key_pc' = "building"
    /\ UNCHANGED <<values, got, iter, collected, pushed>>

\* push past its assert: encode_value appends to the buffer, then the count
\* byte is set to count + 1.  The variant leaves the count byte as it is.
Push_KeepCount(buf, v) == buf \o EncodeValue(v)
Push(buf, v) == [(buf \o EncodeValue(v)) EXCEPT ![1] = (buf[1] + 1) % 256]

\* InvariantKeyBuilder::push of the next value
KeyPush ==
    /\ key_pc = "building"
    /\ pushed < Len(values)
    /\ LET count == data[1]
           v == values[pushed + 1]
       IN  IF BuilderFull(count) \/ ~Supported(v)
               THEN key_pc' = "panicked" /\ UNCHANGED <<data, pushed>>
               ELSE /\ data' = Push(data, v)
                    /\ pushed' = pushed + 1
                    /\ key_pc' = key_pc
    /\ UNCHANGED <<values, got, iter, collected>>

\* InvariantKeyBuilder::build once every value is pushed
KeyBuild ==
    /\ key_pc = "building"
    /\ pushed = Len(values)
    /\ key_pc' = "get"
    /\ UNCHANGED <<values, data, got, iter, collected, pushed>>

\* key.get(i) for the next index, up to the first index past the end
KeyGet ==
    /\ key_pc = "get"
    /\ Len(got) <= Len(values)
    /\ got' = Append(got, Get(data, Len(got)))
    /\ UNCHANGED <<values, data, key_pc, iter, collected, pushed>>

\* key.iter()
KeyIter ==
    /\ key_pc = "get"
    /\ Len(got) = Len(values) + 1
    /\ iter' = [offset |-> COUNT_SIZE, remaining |-> data[1]]
    /\ key_pc' = "iter"
    /\ UNCHANGED <<values, data, got, collected, pushed>>

\* InvariantKeyIter::next
KeyIterNext ==
    /\ key_pc = "iter"
    /\ IF iter.remaining = 0
           THEN key_pc' = "done" /\ UNCHANGED <<iter, collected>>
           ELSE LET r == DecodeValue(Rest(data, iter.offset))
                IN  /\ collected' = Append(collected, r.value)
                    /\ iter' = [offset |-> iter.offset + r.consumed,
                                remaining |-> iter.remaining - 1]
                    /\ key_pc' = key_pc
    /\ UNCHANGED <<values, data, got, pushed>>


-----------------------------------------------------------------------------
(* The routes of one index: GET .../count and POST .../ann *)

\* StatusCode of the responses; the Json extractor answers 400 or 422 to a
\* body that does not deserialize
OK == 200
BAD_REQUEST == 400
NOT_FOUND == 404
UNPROCESSABLE_ENTITY == 422
INTERNAL_SERVER_ERROR == 500

\* a request body without the `limit` field
NoLimit == -1

\* the limits of the requests: absent, zero, and both sides of 1000
LimitInputs == {NoLimit, 0, 1, 2, 1000, 1001}

\* the (keyspace, index) of the request's path
Paths == {<<"ks", "idx1">>, <<"ks", "idx2">>}

\* a request, with what the engine and the database know of the index it
\* names: `live` (get_index finds it), its dimensions, the number of its
\* primary-key columns and `scanned` (its full scan has finished)
Requests ==
    [route : {"count", "ann"},
     live : BOOLEAN,
     dimensions : 1..MaxDim,
     embedding_len : 0..(MaxDim + 1),
     limit : LimitInputs,
     columns : 0..MaxCols,
     path : Paths,
     scanned : BOOLEAN]

NoReq ==
    [route |-> "none", live |-> FALSE, dimensions |-> 1, embedding_len |-> 0,
     limit |-> NoLimit, columns |-> 0, path |-> <<"ks", "idx1">>, scanned |-> FALSE]

\* AnnR and CountR: Ok with the primary keys (each the number of its values)
\* and the number of distances, or with the count; or one of the AnnError
Answer(kind, expected, actual, keys, distances) ==
    [kind |-> kind, expected |-> expected, actual |-> actual,
     keys |-> keys, distances |-> distances]

NoReply == Answer("none", 0, 0, <<>>, 0)

OtherError == Answer("OtherError", 0, 0, <<>>, 0)

WrongEmbeddingDimension(expected, actual) ==
    Answer("WrongEmbeddingDimension", expected, actual, <<>>, 0)

AnnOk(keys, distances) == Answer("Ok", 0, 0, keys, distances)

CountOk(count) == Answer("Ok", 0, 0, <<>>, count)

\* validate_embedding_dimensions: NonZeroUsize::new of the length, then the
\* comparison with the dimensions.  The variant only refuses the empty
\* embedding.
validate_embedding_dimensions_NonEmpty(embedding_len, dimensions) ==
    IF embedding_len = 0
    THEN WrongEmbeddingDimension(dimensions, 0)
    ELSE AnnOk(<<>>, 0)
validate_embedding_dimensions(embedding_len, dimensions) ==
    IF embedding_len = 0
    THEN WrongEmbeddingDimension(dimensions, 0)
    ELSE IF embedding_len # dimensions
         THEN WrongEmbeddingDimension(dimensions, embedding_len)
         ELSE AnnOk(<<>>, 0)

\* Deserialize of PostIndexAnnRequest.limit: Limit(NonZeroUsize) refuses 0,
\* #[serde(default)] gives Limit::default() to a body without the field
DeserializeLimit(l) ==
    IF l = NoLimit THEN [ok |-> TRUE, limit |-> 1]
    ELSE IF l = 0 THEN [ok |-> FALSE, limit |-> 0]
    ELSE [ok |-> TRUE, limit |-> l]

\* what the index can answer to a search: any keys and distances, or an error
KeySizes ==
    UNION {[1..n -> 0..(MaxCols + 1)] : n \in 0..MaxKeys}

SearchOutcomes ==
    {AnnOk(keys, d) : keys \in KeySizes, d \in 0..MaxKeys} \cup {OtherError}

\* a message of the handler to the index: Index::Ann or Index::Count
Msg(op, embedding_len, limit) ==
    [op |-> op, embedding_len |-> embedding_len, limit |-> limit]

\* get_index_count up to index.count(): 404 without a live index
GetIndexCount ==
    /\ http_pc = "start"
    /\ req.route = "count"
    /\ IF ~req.live
       THEN /\ resp' = NOT_FOUND
            /\ http_pc' = "done"
            /\ passed' = passed
       ELSE /\ passed' = Append(passed, Msg("count", 0, 0))
            /\ http_pc' = "await_count"
            /\ resp' = resp
    /\ UNCHANGED <<req, reply, observed>>

\* the index answers Index::Count, or the channel to it is closed
IndexCount ==
    /\ http_pc = "await_count"
    /\ reply' \in {CountOk(n) : n \in 0..MaxKeys} \cup {OtherError}
    /\ http_pc' = "reply_count"
    /\ UNCHANGED <<req, resp, passed, observed>>

\* get_index_count after index.count()
CountStatus(r) ==
    IF r.kind # "Ok" THEN INTERNAL_SERVER_ERROR ELSE OK

GetIndexCountReply ==
    /\ http_pc = "reply_count"
    /\ resp' = CountStatus(reply)
    /\ http_pc' = "done"
    /\ UNCHANGED <<req, reply, passed, observed>>

\* timer.observe_duration() of the timer started with the labels of the path
Observe(obs, path) == Append(obs, path)

\* post_index_ann up to index.ann(): the Json extractor, then (in the
\* handler) the timer and get_index
PostIndexAnn ==
    /\ http_pc = "start"
    /\ req.route = "ann"
    /\ LET limit == DeserializeLimit(req.limit)
       IN  IF ~limit.ok
           THEN /\ resp' \in {BAD_REQUEST, UNPROCESSABLE_ENTITY}
                /\ http_pc' = "done"
                /\ passed' = passed
                /\ observed' = observed
           ELSE IF ~req.live
           THEN /\ resp' = NOT_FOUND
                /\ http_pc' = "done"
                /\ passed' = passed
                /\ observed' = Observe(observed, req.path)
           ELSE /\ passed' = Append(passed, Msg("ann", req.embedding_len, limit.limit))
                /\ http_pc' = "await_ann"
                /\ resp' = resp
                /\ observed' = observed
    /\ UNCHANGED <<req, reply>>

\* the index answers Index::Ann: the dimension check, then the search
IndexAnn ==
    /\ http_pc = "await_ann"
    /\ LET checked == validate_embedding_dimensions(
                          passed[Len(passed)].embedding_len, req.dimensions)
       IN  IF checked.kind # "Ok"
           THEN reply' = checked
           ELSE reply' \in SearchOutcomes
    /\ http_pc' = "reply_ann"
    /\ UNCHANGED <<req, resp, passed, observed>>

\* IndexExt::ann when the send or the oneshot fails: the `?` gives OtherError
AnnChannelClosed ==
    /\ http_pc = "await_ann"
    /\ reply' = OtherError
    /\ http_pc' = "reply_ann"
    /\ UNCHANGED <<req, resp, passed, observed>>

\* the check of the primary keys: for each column, each key whose size is
\* not the number of columns bails
WrongKeySize(keys, columns) ==
    \E idx_column \in 1..columns :
        \E k \in DOMAIN keys : keys[k] # columns

\* post_index_ann after index.ann().  The variant does not compare the
\* number of keys with the number of distances.
AnnStatus_AnyDistances(r, columns) ==
    IF r.kind # "Ok" THEN INTERNAL_SERVER_ERROR
    ELSE IF WrongKeySize(r.keys, columns) THEN INTERNAL_SERVER_ERROR
    ELSE OK
AnnStatus(r, columns) ==
    IF r.kind # "Ok" THEN INTERNAL_SERVER_ERROR
    ELSE IF Len(r.keys) # r.distances THEN INTERNAL_SERVER_ERROR
    ELSE IF WrongKeySize(r.keys, columns) THEN INTERNAL_SERVER_ERROR
    ELSE OK

PostIndexAnnReply ==
    /\ http_pc = "reply_ann"
    /\ observed' = Observe(observed, req.path)
    /\ resp' = AnnStatus(reply, req.columns)
    /\ http_pc' = "done"
    /\ UNCHANGED <<req, reply, passed>>

NoAsk == [phase |-> "none", expect |-> "none", reply |-> "none"]

NoIdent == [pc |-> "idle", a |-> <<>>, b |-> <<>>, ida |-> <<>>, idb |-> <<>>,
            keyspace |-> <<>>, index |-> <<>>]

NoDown == [pc |-> "idle", signal |-> "none", tasks |-> {}, stopped |-> <<>>]

NoAdding ==
    [pc |-> "idle", todo |-> <<>>, outstanding |-> {}, added |-> {},
     has_failures |-> FALSE]

NoCall == [callers |-> <<>>, queue |-> <<>>, taken |-> {}, actor |-> "none"]

NoRpc ==
    [pc |-> "idle", closed |-> FALSE, got_stop |-> FALSE, senders |-> 0,
     queue |-> 0, recv_off |-> FALSE, accept_off |-> FALSE, stop |-> FALSE,
     conns |-> <<>>, at_stop |-> <<>>]

\* no add_indexes call, no caller of an index, no RPC server
MoreIdle ==
    /\ adding = NoAdding
    /\ call = NoCall
    /\ rpc = NoRpc

\* no get_status call, no IndexId, no shutdown, no full scan
MiscIdle ==
    /\ MoreIdle
    /\ ask = NoAsk
    /\ ns_alive = TRUE
    /\ ident = NoIdent
    /\ down = NoDown
    /\ scans = {}

\* no request is being served
ApiIdle ==
    /\ req = NoReq
    /\ http_pc = "idle"
    /\ reply = NoReply
    /\ resp = 0
    /\ passed = <<>>
    /\ observed = <<>>
    /\ mbox = <<>>
    /\ mbox_closed = FALSE
    /\ received = <<>>
    /\ tasks = <<>>
    /\ MiscIdle

\* the actors, the monitor and the codec before anything has run
BaseIdle ==
    /\ status = "Initializing"
    /\ idxs = {}
    /\ ns_queue = <<>>
    /\ client = ClientFree
    /\ db_indexes = {}
    /\ db_schema = 1
    /\ healthy = FALSE
    /\ schema_version = NoVersion
    /\ indexes = {}
    /\ mon_pc = "check"
    /\ rx_closed = FALSE
    /\ tick = NoTick
    /\ engine_indexes = {}
    /\ values = <<>>
    /\ data = <<>>
    /\ key_pc = "new"
    /\ got = <<>>
    /\ iter = NoIter
    /\ collected = <<>>
    /\ pushed = 0
    /\ other = NoKey
    /\ fed = NoFed

\* the same, with no request, no mailbox traffic, no get_status call, no
\* IndexId, no shutdown and no full scan
RestIdle ==
    /\ BaseIdle
    /\ req = NoReq
    /\ http_pc = "idle"
    /\ reply = NoReply
    /\ resp = 0
    /\ passed = <<>>
    /\ observed = <<>>
    /\ mbox = <<>>
    /\ mbox_closed = FALSE
    /\ received = <<>>
    /\ tasks = <<>>
    /\ ask = NoAsk
    /\ ns_alive = TRUE
    /\ ident = NoIdent
    /\ down = NoDown
    /\ scans = {}

InitHttp ==
    /\ status = "Initializing"
    /\ idxs = {}
    /\ ns_queue = <<>>
    /\ client = ClientFree
    /\ db_indexes = {}
    /\ db_schema = 1
    /\ healthy = FALSE
    /\ schema_version = NoVersion
    /\ indexes = {}
    /\ mon_pc = "check"
    /\ rx_closed = FALSE
    /\ tick = NoTick
    /\ engine_indexes = {}
    /\ values = <<>>
    /\ data = <<>>
    /\ key_pc = "new"
    /\ got = <<>>
    /\ iter = NoIter
    /\ collected = <<>>
    /\ pushed = 0
    /\ other = NoKey
    /\ fed = NoFed
    /\ req \in Requests
    /\ http_pc = "start"
    /\ reply = NoReply
    /\ resp = 0
    /\ passed = <<>>
    /\ observed = <<>>
    /\ mbox = <<>>
    /\ mbox_closed = FALSE
    /\ received = <<>>
    /\ tasks = <<>>
    /\ MiscIdle

\* everything but the request being served
rest_of_http ==
    <<node_vars, db_vars, mon_vars,
      values, data, key_pc, got, iter, collected, pushed, pair_vars, mbox_vars, misc_vars>>

NextHttp ==
    \/ GetIndexCount /\ UNCHANGED rest_of_http
    \/ IndexCount /\ UNCHANGED rest_of_http
    \/ GetIndexCountReply /\ UNCHANGED rest_of_http
    \/ PostIndexAnn /\ UNCHANGED rest_of_http
    \/ IndexAnn /\ UNCHANGED rest_of_http
    \/ AnnChannelClosed /\ UNCHANGED rest_of_http
    \/ PostIndexAnnReply /\ UNCHANGED rest_of_http

SpecHttp == InitHttp /\ [][NextHttp]_vars

-----------------------------------------------------------------------------
(* The mailbox of one index: tasks that call IndexExt on clones of its
   Sender, and the index that receives *)

Ops == {"add_or_replace", "remove", "ann", "count"}

\* the calls that wait for an answer on a oneshot channel
Reads == {"ann", "count"}

Senders == 1..2

\* the calls of one task, in program order
Scripts == UNION {[1..n -> Ops] : n \in 0..MaxOps}

\* a task: its calls, the number of calls it has made, and its position
\* (ready, awaiting an answer, done, panicked)
Task(script, made, at, errs) ==
    [script |-> script, made |-> made, at |-> at, errs |-> errs]

\* the Index message of the call number n of task t
IndexMsg(t, n, op) == [task |-> t, seq |-> n, op |-> op]

\* mpsc::Sender::send on a channel with room: the message goes to the back.
\* The variant puts it at the front.
Enqueue_Front(q, m) == <<m>> \o q
Enqueue(q, m) == Append(q, m)

\* where a task is after a call that is not waiting for an answer
After(script, made) == IF made = Len(script) THEN "done" ELSE "ready"

\* IndexExt::add_or_replace, remove, ann, count: the send.  A write returns
\* when the message is in the channel and panics (expect) when the channel
\* is closed; a read then awaits its oneshot, and returns Err when the
\* channel is closed.  A send on a full channel waits.
TaskSend(t) ==
    /\ tasks[t].at = "ready"
    /\ LET n == tasks[t].made + 1
           op == tasks[t].script[n]
       IN  IF mbox_closed
           THEN /\ tasks' = [tasks EXCEPT ![t] =
                      IF op \in Reads
                      THEN Task(@.script, n, After(@.script, n), @.errs + 1)
                      ELSE Task(@.script, n, "panicked", @.errs)]
                /\ mbox' = mbox
           ELSE /\ Len(mbox) < MaxMailbox
                /\ mbox' = Enqueue(mbox, IndexMsg(t, n, op))
                /\ tasks' = [tasks EXCEPT ![t] =
                      IF op \in Reads
                      THEN Task(@.script, n, "awaiting", @.errs)
                      ELSE Task(@.script, n, After(@.script, n), @.errs)]
    /\ UNCHANGED <<mbox_closed, received>>

\* the index takes the oldest message; the answer of a read wakes its task
IndexRecv ==
    /\ ~mbox_closed
    /\ mbox # <<>>
    /\ LET m == Head(mbox)
       IN  /\ received' = Append(received, m)
           /\ mbox' = Tail(mbox)
           /\ tasks' = IF m.op \in Reads
                       THEN [tasks EXCEPT ![m.task] =
                               Task(@.script, @.made, After(@.script, @.made), @.errs)]
                       ELSE tasks
    /\ UNCHANGED mbox_closed

\* the index stops: its Receiver is dropped with the messages it holds, and
\* the oneshot of every waiting read is dropped (rx.await? gives Err)
IndexStop ==
    /\ ~mbox_closed
    /\ mbox_closed' = TRUE
    /\ mbox' = <<>>
    /\ tasks' = [t \in DOMAIN tasks |->
                    IF tasks[t].at = "awaiting"
                    THEN Task(tasks[t].script, tasks[t].made,
                              After(tasks[t].script, tasks[t].made), tasks[t].errs + 1)
                    ELSE tasks[t]]
    /\ UNCHANGED received

InitMailbox ==
    /\ status = "Initializing"
    /\ idxs = {}
    /\ ns_queue = <<>>
    /\ client = ClientFree
    /\ db_indexes = {}
    /\ db_schema = 1
    /\ healthy = FALSE
    /\ schema_version = NoVersion
    /\ indexes = {}
    /\ mon_pc = "check"
    /\ rx_closed = FALSE
    /\ tick = NoTick
    /\ engine_indexes = {}
    /\ values = <<>>
    /\ data = <<>>
    /\ key_pc = "new"
    /\ got = <<>>
    /\ iter = NoIter
    /\ collected = <<>>
    /\ pushed = 0
    /\ other = NoKey
    /\ fed = NoFed
    /\ req = NoReq
    /\ http_pc = "idle"
    /\ reply = NoReply
    /\ resp = 0
    /\ passed = <<>>
    /\ observed = <<>>
    /\ mbox = <<>>
    /\ mbox_closed = FALSE
    /\ received = <<>>
    /\ tasks \in [Senders -> {Task(sc, 0, After(sc, 0), 0) : sc \in Scripts}]
    /\ MiscIdle

\* everything but the mailbox and its tasks
rest_of_mailbox ==
    <<node_vars, db_vars, mon_vars,
      values, data, key_pc, got, iter, collected, pushed, pair_vars, http_vars, misc_vars>>

NextMailbox ==
    \/ \E t \in Senders : TaskSend(t) /\ UNCHANGED rest_of_mailbox
    \/ IndexRecv /\ UNCHANGED rest_of_mailbox
    \/ IndexStop /\ UNCHANGED rest_of_mailbox

SpecMailbox == InitMailbox /\ [][NextMailbox]_vars

-----------------------------------------------------------------------------
(* IndexId: the String "<keyspace>.<index>" *)

\* the characters of a name: a letter and the dot
NameChars == {"a", "."}

\* KeyspaceName and TableName: any String (derive From<String>, Deserialize)
Names == UNION {[1..n -> NameChars] : n \in 0..MaxNameLen}

NamePairs == Names \X Names

\* IndexId::new: format!("{}.{}", keyspace.0, index.0)
IndexIdNew(keyspace, index) == keyspace \o <<".">> \o index

\* str::split_once('.'): the position of the first dot, 0 for None
FirstDot(str) ==
    IF \E i \in DOMAIN str : str[i] = "."
    THEN CHOOSE i \in DOMAIN str : str[i] = "." /\ \A j \in 1..(i - 1) : str[j] # "."
    ELSE 0

\* what unwrap() of None leaves
NoSplit == <<"panic">>

\* IndexId::keyspace: split_once('.').unwrap().0
IdKeyspace(id) ==
    IF FirstDot(id) = 0 THEN NoSplit ELSE SubSeq(id, 1, FirstDot(id) - 1)

\* IndexId::index: split_once('.').unwrap().1
IdIndex(id) ==
    IF FirstDot(id) = 0 THEN NoSplit ELSE SubSeq(id, FirstDot(id) + 1, Len(id))

\* IndexId::new on two pairs of names
IdNew ==
    /\ ident.pc = "start"
    /\ ident' = [ident EXCEPT !.pc = "built",
                              !.ida = IndexIdNew(ident.a[1], ident.a[2]),
                              !.idb = IndexIdNew(ident.b[1], ident.b[2])]

\* keyspace() and index() of the first IndexId
IdRead ==
    /\ ident.pc = "built"
    /\ ident' = [ident EXCEPT !.pc = "read",
                              !.keyspace = IdKeyspace(ident.ida),
                              !.index = IdIndex(ident.ida)]

InitIndexId ==
    /\ BaseIdle
    /\ req = NoReq
    /\ http_pc = "idle"
    /\ reply = NoReply
    /\ resp = 0
    /\ passed = <<>>
    /\ observed = <<>>
    /\ mbox = <<>>
    /\ mbox_closed = FALSE
    /\ received = <<>>
    /\ tasks = <<>>
    /\ ask = NoAsk
    /\ ns_alive = TRUE
    /\ ident \in {[NoIdent EXCEPT !.pc = "start", !.a = a, !.b = b] :
                    a \in NamePairs, b \in NamePairs}
    /\ down = NoDown
    /\ scans = {}
    /\ MoreIdle

\* everything but the IndexIds
rest_of_ident ==
    <<node_vars, db_vars, mon_vars,
      values, data, key_pc, got, iter, collected, pushed, pair_vars,
      http_vars, mbox_vars, ask_vars, down, scans, more_vars>>

NextIndexId ==
    \/ IdNew /\ UNCHANGED rest_of_ident
    \/ IdRead /\ UNCHANGED rest_of_ident

SpecIndexId == InitIndexId /\ [][NextIndexId]_vars

-----------------------------------------------------------------------------
(* The process at shutdown: main awaits wait_for_shutdown and returns *)

\* the tasks spawned on the runtime: the HTTP server, the engine, and one
\* actor per index
IndexActors == {<<"index", i>> : i \in 1..MaxIndexActors}

Components == {<<"http", 0>>, <<"engine", 0>>} \cup IndexActors

\* wait_for_shutdown: the select over Ctrl-C and the terminate signal
WaitForShutdown(sig) ==
    /\ down.pc = "running"
    /\ down' = [down EXCEPT !.pc = "signalled", !.signal = sig]

\* main returns Ok(()) right after wait_for_shutdown: its locals are dropped
\* and the current_thread runtime shuts down
MainReturns ==
    /\ down.pc = "signalled"
    /\ down' = [down EXCEPT !.pc = "dropping"]

\* the runtime drops one of the tasks it still owns; main gives it no order
TaskDropped(c) ==
    /\ down.pc = "dropping"
    /\ c \in down.tasks
    /\ \A i \in DOMAIN down.stopped : down.stopped[i] # c
    /\ down' = [down EXCEPT !.stopped = Append(@, c)]

InitShutdown ==
    /\ BaseIdle
    /\ req = NoReq
    /\ http_pc = "idle"
    /\ reply = NoReply
    /\ resp = 0
    /\ passed = <<>>
    /\ observed = <<>>
    /\ mbox = <<>>
    /\ mbox_closed = FALSE
    /\ received = <<>>
    /\ tasks = <<>>
    /\ ask = NoAsk
    /\ ns_alive = TRUE
    /\ ident = NoIdent
    /\ down \in {[NoDown EXCEPT !.pc = "running",
                                !.tasks = {<<"http", 0>>, <<"engine", 0>>} \cup A] :
                    A \in SUBSET IndexActors}
    /\ scans = {}
    /\ MoreIdle

\* everything but the process
rest_of_down ==
    <<node_vars, db_vars, mon_vars,
      values, data, key_pc, got, iter, collected, pushed, pair_vars,
      http_vars, mbox_vars, ask_vars, ident, scans, more_vars>>

NextShutdown ==
    \/ \E sig \in {"ctrl_c", "terminate"} : WaitForShutdown(sig) /\ UNCHANGED rest_of_down
    \/ MainReturns /\ UNCHANGED rest_of_down
    \/ \E c \in Components : TaskDropped(c) /\ UNCHANGED rest_of_down

SpecShutdown == InitShutdown /\ [][NextShutdown]_vars

-----------------------------------------------------------------------------
(* add_indexes: the AddIndex requests of one tick, request by request *)

\* what the calls below leave alone
base_vars ==
    <<node_vars, db_vars, mon_vars,
      values, data, key_pc, got, iter, collected, pushed, pair_vars,
      http_vars, mbox_vars, ask_vars, ident, down, scans>>

\* the iterators add_indexes is given: metadata in any order, none twice
AddInputs ==
    UNION {Orders(S) : S \in {T \in SUBSET Metadata : Cardinality(T) <= MaxAdds}}

\* StreamExt::filter_map polls the stream for its next item only while it
\* holds no pending future: the closure's future for one item (the send to
\* the engine and the wait for its reply) is driven to completion first.
\* The variant pulls the next item whatever is pending.
CanPull_Concurrent(outstanding) == TRUE
CanPull(outstanding) == outstanding = {}

\* the closure is called with the next item: engine.add_index(idx.clone())
\* sends Engine::AddIndex and waits for the reply
AddSend ==
    /\ adding.pc = "running"
    /\ adding.todo # <<>>
    /\ CanPull(adding.outstanding)
    /\ adding' = [adding EXCEPT !.todo = Tail(@),
                                !.outstanding = @ \cup {Head(adding.todo)}]

\* the engine answers a request: Ok keeps the item (`.ok().map(|_| idx)`),
\* Err stores has_failures and drops it
AddAnswer(m, ok) ==
    /\ adding.pc = "running"
    /\ m \in adding.outstanding
    /\ adding' = [adding EXCEPT !.outstanding = @ \ {m},
                                !.added = IF ok THEN @ \cup {m} ELSE @,
                                !.has_failures = @ \/ ~ok]

\* the stream is exhausted: collect() completes, AddIndexesR is returned
AddCollect ==
    /\ adding.pc = "running"
    /\ adding.todo = <<>>
    /\ adding.outstanding = {}
    /\ adding' = [adding EXCEPT !.pc = "done"]

InitAddIndexes ==
    /\ RestIdle
    /\ adding \in {[NoAdding EXCEPT !.pc = "running", !.todo = q] : q \in AddInputs}
    /\ call = NoCall
    /\ rpc = NoRpc

rest_of_adding == <<base_vars, call, rpc>>

NextAddIndexes ==
    \/ AddSend /\ UNCHANGED rest_of_adding
    \/ \E m \in Metadata, ok \in BOOLEAN : AddAnswer(m, ok) /\ UNCHANGED rest_of_adding
    \/ AddCollect /\ UNCHANGED rest_of_adding

SpecAddIndexes == InitAddIndexes /\ [][NextAddIndexes]_vars

-----------------------------------------------------------------------------
(* IndexExt::ann and IndexExt::count against an index that may stop *)

Callers == 1..MaxCallers

\* a call not made yet: its operation, where it is, what the oneshot holds
\* ("none", a reply, or "dropped" once its Sender is gone), what it returned
NoCaller == [op |-> "none", pc |-> "idle", reply |-> "none", result |-> "none"]

\* the Err a call returns: AnnError::OtherError through From<E>, or the
\* anyhow::Error of CountR
ErrorOf(op) == IF op = "ann" THEN "OtherError" ELSE "Err"

\* what the index can send on the oneshot of a message
RepliesTo(op) ==
    IF op = "ann" THEN {"Ok", "WrongEmbeddingDimension", "OtherError"}
    ELSE {"Ok", "Err"}

\* `self.send(..).await?`: a closed channel is a SendError, converted and
\* returned; otherwise the call goes on to the oneshot
SendResult(closed, op) ==
    IF closed THEN [pc |-> "returned", result |-> ErrorOf(op)]
    ELSE [pc |-> "await", result |-> "none"]

\* `rx.await?`: a dropped oneshot Sender is a RecvError, converted and
\* returned; otherwise what the index sent.  The variant unwraps the
\* oneshot the way add_or_replace and remove unwrap their send.
RecvResult_Expect(sent, op) == IF sent = "dropped" THEN "panic" ELSE sent
RecvResult(sent, op) == IF sent = "dropped" THEN ErrorOf(op) ELSE sent

\* a task calls index.ann(..) or index.count(): the oneshot is created
CallBegin(c, op) ==
    /\ call.callers[c].pc = "idle"
    /\ call' = [call EXCEPT !.callers[c].op = op, !.callers[c].pc = "send"]

\* self.send(msg).await completes: with an error when the index has dropped
\* its Receiver, with the message queued when the mailbox has room
CallSend(c) ==
    /\ call.callers[c].pc = "send"
    /\ LET closed == call.actor = "stopped"
           r == SendResult(closed, call.callers[c].op)
       IN  /\ closed \/ Len(call.queue) < MaxCallQueue
           /\ call' = [call EXCEPT
                         !.callers[c].pc = r.pc,
                         !.callers[c].result = r.result,
                         !.queue = IF closed THEN @ ELSE Append(@, c)]

\* rx.await completes once the oneshot holds a value or has lost its Sender
CallRecv(c) ==
    /\ call.callers[c].pc = "await"
    /\ call.callers[c].reply # "none"
    /\ call' = [call EXCEPT
                  !.callers[c].pc = "returned",
                  !.callers[c].result =
                      RecvResult(call.callers[c].reply, call.callers[c].op)]

\* the index receives the oldest message
ActorTake ==
    /\ call.actor = "running"
    /\ call.queue # <<>>
    /\ call' = [call EXCEPT !.queue = Tail(@), !.taken = @ \cup {Head(call.queue)}]

\* the index answers a message it holds
ActorReply(c, r) ==
    /\ call.actor = "running"
    /\ c \in call.taken
    /\ r \in RepliesTo(call.callers[c].op)
    /\ call' = [call EXCEPT !.taken = @ \ {c}, !.callers[c].reply = r]

\* the index drops the reply channel of a message without answering
ActorDropTx(c) ==
    /\ call.actor = "running"
    /\ c \in call.taken
    /\ call' = [call EXCEPT !.taken = @ \ {c}, !.callers[c].reply = "dropped"]

\* the index stops: its Receiver is dropped, and with it the messages still
\* queued and the ones it held, each with its oneshot Sender
ActorStop ==
    /\ call.actor = "running"
    /\ call' = [call EXCEPT
                  !.actor = "stopped",
                  !.queue = <<>>,
                  !.taken = {},
                  !.callers = [c \in Callers |->
                      IF c \in call.taken \/ \E i \in DOMAIN call.queue : call.queue[i] = c
                      THEN [call.callers[c] EXCEPT !.reply = "dropped"]
                      ELSE call.callers[c]]]

InitCall ==
    /\ RestIdle
    /\ adding = NoAdding
    /\ call = [callers |-> [c \in Callers |-> NoCaller], queue |-> <<>>,
               taken |-> {}, actor |-> "running"]
    /\ rpc = NoRpc

rest_of_call == <<base_vars, adding, rpc>>

CallerStep(c) ==
    \/ CallSend(c) /\ UNCHANGED rest_of_call
    \/ CallRecv(c) /\ UNCHANGED rest_of_call

NextCall ==
    \/ \E c \in Callers, op \in {"ann", "count"} : CallBegin(c, op) /\ UNCHANGED rest_of_call
    \/ \E c \in Callers : CallerStep(c)
    \/ ActorTake /\ UNCHANGED rest_of_call
    \/ \E c \in Callers, r \in {"Ok", "WrongEmbeddingDimension", "OtherError", "Err"} :
          ActorReply(c, r) /\ UNCHANGED rest_of_call
    \/ \E c \in Callers : ActorDropTx(c) /\ UNCHANGED rest_of_call
    \/ ActorStop /\ UNCHANGED rest_of_call

\* The runtime polls a task whose send or oneshot has completed; the index
\* itself owes nothing.
SpecCallFair ==
    /\ InitCall
    /\ [][NextCall]_vars
    /\ \A c \in Callers : WF_vars(CallerStep(c))

-----------------------------------------------------------------------------
(* The RPC server: its accept loop and its connection handlers *)

ConnIds == 1..MaxConns

\* where a connection is: not made yet, in the select! of the negotiation
\* loop, inside handle_negotiations, in the select! of the RPC loop, inside
\* handle_rpc, or its handler has returned
ConnPhases == {"none", "negotiating", "neg_io", "rpc", "rpc_io", "ended"}

\* `rx.is_closed()`: rx.close() was called, or every Sender is dropped
IsClosed(closed, senders) == closed \/ senders = 0

\* the arm of RpcServer::Stop: rx.close().  The variant leaves the channel
\* open.
OnStop_KeepOpen(closed) == closed
OnStop(closed) == TRUE

\* a Sender<RpcServer> sends Stop
RpcSendStop ==
    /\ rpc.senders > 0
    /\ ~rpc.closed
    /\ rpc.queue < MaxStops
    /\ rpc' = [rpc EXCEPT !.queue = @ + 1]

\* a Sender<RpcServer> is dropped
RpcDropSender ==
    /\ rpc.senders > 0
    /\ rpc' = [rpc EXCEPT !.senders = @ - 1]

\* `while !rx.is_closed()`, and after the loop stop_tx.send(true)
RpcTest ==
    /\ rpc.pc = "test"
    /\ IF IsClosed(rpc.closed, rpc.senders)
       THEN rpc' = [rpc EXCEPT !.pc = "done", !.stop = TRUE, !.at_stop = rpc.conns]
       ELSE rpc' = [rpc EXCEPT !.pc = "select", !.recv_off = FALSE,
                               !.accept_off = FALSE]

\* select!, the arm of listener.accept(): a connection arrives and its
\* handler is spawned with a clone of stop_rx; or accept answers Err, the
\* pattern Ok(..) does not match and the arm is disabled for this select!
\* (which panics when no arm is left)
RpcAccept(id, ok) ==
    /\ rpc.pc = "select"
    /\ ~rpc.accept_off
    /\ rpc.conns[id] = "none"
    /\ \A j \in ConnIds : j < id => rpc.conns[j] # "none"
    /\ IF ok
       THEN rpc' = [rpc EXCEPT !.conns[id] = "negotiating", !.pc = "test"]
       ELSE rpc' = [rpc EXCEPT !.accept_off = TRUE,
                               !.pc = IF rpc.recv_off THEN "panicked" ELSE @]

\* select!, the arm of rx.recv(): Some(Stop) closes the channel; None (no
\* message and no Sender left) does not match the pattern Some(msg) and the
\* arm is disabled for this select!
RpcRecv ==
    /\ rpc.pc = "select"
    /\ ~rpc.recv_off
    /\ IF rpc.queue > 0
       THEN rpc' = [rpc EXCEPT !.queue = @ - 1, !.got_stop = TRUE,
                               !.closed = OnStop(@), !.pc = "test"]
       ELSE /\ rpc.senders = 0
            /\ rpc' = [rpc EXCEPT !.recv_off = TRUE,
                                   !.pc = IF rpc.accept_off THEN "panicked" ELSE @]

\* a handler's select!, the arm of stream.read(buf); `how` is what the read
\* gives: data, the end of the stream (Ok(0)) or an error
ConnRead(id, how) ==
    /\ rpc.conns[id] \in {"negotiating", "rpc"}
    /\ rpc' = [rpc EXCEPT !.conns[id] =
                 CASE how = "error" -> "ended"
                   [] how = "eof" /\ rpc.conns[id] = "rpc" -> "ended"
                   [] rpc.conns[id] = "negotiating" -> "neg_io"
                   [] OTHER -> "rpc_io"]

\* handle_negotiations or handle_rpc returns: Err ends the handler; after
\* handle_negotiations, into_rpc either gives the ServerRpc or not yet
ConnProcessed(id, how) ==
    /\ rpc.conns[id] \in {"neg_io", "rpc_io"}
    /\ rpc.conns[id] = "rpc_io" => how # "upgraded"
    /\ rpc' = [rpc EXCEPT !.conns[id] =
                 CASE how = "error" -> "ended"
                   [] how = "upgraded" -> "rpc"
                   [] rpc.conns[id] = "neg_io" -> "negotiating"
                   [] OTHER -> "rpc"]

\* a handler's select!, the arm of stop_rx.changed(): the value is read
\* and, being true, ends the loop
ConnStop(id) ==
    /\ rpc.conns[id] \in {"negotiating", "rpc"}
    /\ rpc.stop
    /\ rpc' = [rpc EXCEPT !.conns[id] = "ended"]

InitRpc ==
    /\ RestIdle
    /\ adding = NoAdding
    /\ call = NoCall
    /\ rpc = [NoRpc EXCEPT !.pc = "test", !.senders = MaxSenders,
                           !.conns = [id \in ConnIds |-> "none"],
                           !.at_stop = [id \in ConnIds |-> "none"]]

rest_of_rpc == <<base_vars, adding, call>>

RpcServerStep ==
    \/ RpcTest /\ UNCHANGED rest_of_rpc
    \/ RpcRecv /\ UNCHANGED rest_of_rpc

ConnProcessedStep(id) ==
    \E how \in {"ok", "upgraded", "error"} : ConnProcessed(id, how) /\ UNCHANGED rest_of_rpc

ConnStopStep(id) == ConnStop(id) /\ UNCHANGED rest_of_rpc

NextRpc ==
    \/ RpcSendStop /\ UNCHANGED rest_of_rpc
    \/ RpcDropSender /\ UNCHANGED rest_of_rpc
    \/ RpcServerStep
    \/ \E id \in ConnIds, ok \in BOOLEAN : RpcAccept(id, ok) /\ UNCHANGED rest_of_rpc
    \/ \E id \in ConnIds, how \in {"data", "eof", "error"} :
          ConnRead(id, how) /\ UNCHANGED rest_of_rpc
    \/ \E id \in ConnIds : ConnProcessedStep(id)
    \/ \E id \in ConnIds : ConnStopStep(id)

\* The scheduling: the server task runs when its loop test or its recv arm
\* is ready; the processing of the bytes a handler has read completes; and
\* select! takes its ready arms in random order, so a handler whose stop arm
\* is ready again and again takes it.  Nothing makes a client connect, send
\* or close.
SpecRpcFair ==
    /\ InitRpc
    /\ [][NextRpc]_vars
    /\ WF_vars(RpcServerStep)
    /\ \A id \in ConnIds : WF_vars(ConnProcessedStep(id))
    /\ \A id \in ConnIds : SF_vars(ConnStopStep(id))

-----------------------------------------------------------------------------
(* Specification of the monitor with the database, the engine and the       *)
(* node-state actor                                                         *)

InitMonitor ==
    /\ status = "Initializing"
    /\ idxs = {}
    /\ ns_queue = <<>>
    /\ client = ClientFree
    /\ db_indexes \in DbStates
    /\ db_schema = 1
    /\ healthy = FALSE
    /\ schema_version = NoVersion
    /\ indexes = {}
    /\ mon_pc = "check"
    /\ rx_closed = FALSE
    /\ tick = NoTick
    /\ engine_indexes = {}
    /\ values = <<>>
    /\ data = <<>>
    /\ key_pc = "new"
    /\ got = <<>>
    /\ iter = NoIter
    /\ collected = <<>>
    /\ pushed = 0
    /\ other = NoKey
    /\ fed = NoFed
    /\ ApiIdle

\* a step of the monitor task
MonLoop ==
    \/ MonCheck
    \/ MonSelectTick
    \/ MonSelectRecv
    \/ MonTickBody

\* The node-state actor drains its mailbox before the monitor, the database
\* or the monitor's owner take their next step: nothing the monitor does
\* reads the actor's state, and the mailbox is FIFO.
NextMonitor ==
    \/ NsRecv /\ UNCHANGED key_vars
    \/ ns_queue = <<>> /\ MonLoop /\ UNCHANGED key_vars
    \/ ns_queue = <<>> /\ DropSenders /\ UNCHANGED key_vars
    \/ ns_queue = <<>> /\ DbChange /\ UNCHANGED key_vars

SpecMonitor == InitMonitor /\ [][NextMonitor]_vars

\* The same, with the scheduling the runtime gives: a ready task runs (the
\* interval fires every second, a non-empty mailbox wakes its actor), and
\* the transient failures may stop.
NextMonitorFair ==
    \/ NextMonitor
    \/ ns_queue = <<>> /\ Heal /\ UNCHANGED key_vars

SpecMonitorFair ==
    /\ InitMonitor
    /\ [][NextMonitorFair]_vars
    /\ WF_vars(NsRecv /\ UNCHANGED key_vars)
    /\ WF_vars(ns_queue = <<>> /\ MonLoop /\ UNCHANGED key_vars)

-----------------------------------------------------------------------------
(* Specification of the monitor with the full scans of the indexes it adds  *)

\* everything the monitor and the full scans leave alone
rest_of_scans ==
    <<values, data, key_pc, got, iter, collected, pushed, pair_vars,
      http_vars, mbox_vars, ask_vars, ident, down, more_vars>>

\* the full scan of an index the monitor added completes: its monitor-items
\* task emits FullScanFinished(m), once
FullScanDone(m) ==
    /\ m \in indexes
    /\ m \notin scans
    /\ CanSend(1)
    /\ ns_queue' = Append(ns_queue, EvFullScanFinished(m))
    /\ scans' = scans \cup {m}
    /\ UNCHANGED <<status, idxs, client, db_vars, mon_vars>>

\* a step of the monitor task; the tasks of the indexes del_indexes removed
\* are gone with them
MonLoopScans ==
    /\ MonLoop
    /\ scans' = scans \cap indexes'
    /\ UNCHANGED rest_of_scans

ScanStep == \E m \in Metadata : FullScanDone(m) /\ UNCHANGED rest_of_scans

InitScan == InitMonitor

NextScan ==
    \/ NsRecv /\ UNCHANGED key_vars
    \/ ns_queue = <<>> /\ MonLoopScans
    \/ ns_queue = <<>> /\ ScanStep
    \/ ns_queue = <<>> /\ DropSenders /\ UNCHANGED key_vars
    \/ ns_queue = <<>> /\ DbChange /\ UNCHANGED key_vars
    \/ ns_queue = <<>> /\ Heal /\ UNCHANGED key_vars

\* The scheduling the runtime gives: the actor is woken by a non-empty
\* mailbox, the interval fires every second, and a running scan completes.
SpecScanFair ==
    /\ InitScan
    /\ [][NextScan]_vars
    /\ WF_vars(NsRecv /\ UNCHANGED key_vars)
    /\ WF_vars(ns_queue = <<>> /\ MonLoopScans)
    /\ WF_vars(ns_queue = <<>> /\ ScanStep)

-----------------------------------------------------------------------------
(* Specification of the node-state actor with its client *)

InitNode ==
    /\ status = "Initializing"
    /\ idxs = {}
    /\ ns_queue = <<>>
    /\ client = ClientFree
    /\ db_indexes = {}
    /\ db_schema = 1
    /\ healthy = FALSE
    /\ schema_version = NoVersion
    /\ indexes = {}
    /\ mon_pc = "check"
    /\ rx_closed = FALSE
    /\ tick = NoTick
    /\ engine_indexes = {}
    /\ values = <<>>
    /\ data = <<>>
    /\ key_pc = "new"
    /\ got = <<>>
    /\ iter = NoIter
    /\ collected = <<>>
    /\ pushed = 0
    /\ other = NoKey
    /\ fed = NoFed
    /\ ApiIdle

\* what a get_status call leaves alone outside the actors and the monitor
rest_of_ask ==
    <<values, data, key_pc, got, iter, collected, pushed, pair_vars,
      http_vars, mbox_vars, ident, down, scans, more_vars>>

NextNode ==
    \/ NsRecv /\ UNCHANGED key_vars
    \/ \E e \in Events : ClientSend(e) /\ UNCHANGED key_vars
    \/ ClientDiscovering /\ UNCHANGED key_vars
    \/ \E S \in IndexSets : ClientDiscovered(S) /\ UNCHANGED key_vars
    \/ \E m \in Metadata : ClientFinished(m) /\ UNCHANGED key_vars
    \/ ClientRestart /\ UNCHANGED key_vars
    \/ ClientGetStatus /\ UNCHANGED rest_of_ask
    \/ ClientDropAsk /\ UNCHANGED rest_of_ask
    \/ NsGetStatus /\ UNCHANGED rest_of_ask

SpecNode == InitNode /\ [][NextNode]_vars

-----------------------------------------------------------------------------
(* Specification of a user of InvariantKey *)

InitCodec ==
    /\ status = "Initializing"
    /\ idxs = {}
    /\ ns_queue = <<>>
    /\ client = ClientFree
    /\ db_indexes = {}
    /\ db_schema = 1
    /\ healthy = FALSE
    /\ schema_version = NoVersion
    /\ indexes = {}
    /\ mon_pc = "check"
    /\ rx_closed = FALSE
    /\ tick = NoTick
    /\ engine_indexes = {}
    /\ values \in KeyInputs
    /\ data = <<>>
    /\ key_pc = "new"
    /\ got = <<>>
    /\ iter = NoIter
    /\ collected = <<>>
    /\ pushed = 0
    /\ other = NoKey
    /\ fed = NoFed
    /\ ApiIdle

NextCodec ==
    \/ KeyNew /\ UNCHANGED <<node_vars, db_vars, mon_vars, pair_vars, api_vars>>
    \/ KeyTryNew /\ UNCHANGED <<node_vars, db_vars, mon_vars, pair_vars, api_vars>>
    \/ KeyBuilderNew /\ UNCHANGED <<node_vars, db_vars, mon_vars, pair_vars, api_vars>>
    \/ KeyPush /\ UNCHANGED <<node_vars, db_vars, mon_vars, pair_vars, api_vars>>
    \/ KeyBuild /\ UNCHANGED <<node_vars, db_vars, mon_vars, pair_vars, api_vars>>
    \/ KeyGet /\ UNCHANGED <<node_vars, db_vars, mon_vars, pair_vars, api_vars>>
    \/ KeyIter /\ UNCHANGED <<node_vars, db_vars, mon_vars, pair_vars, api_vars>>
    \/ KeyIterNext /\ UNCHANGED <<node_vars, db_vars, mon_vars, pair_vars, api_vars>>

SpecCodec == InitCodec /\ [][NextCodec]_vars

-----------------------------------------------------------------------------
(* Two keys side by side: equality of buffers, hash_prefix *)

\* values whose encodings share bytes: one payload under several variants,
\* a string that is the concatenation of two others, a blob that holds the
\* encoding of another value
PairSamples ==
    { Cql("Empty", 0, <<>>),
      Cql("Boolean", 1, <<>>),
      Cql("TinyInt", 1, <<>>),
      Cql("Text", 0, <<>>),
      Cql("Text", 0, <<97>>),
      Cql("Text", 0, <<97, 97>>),
      Cql("Blob", 0, <<97>>),
      Cql("Blob", 0, <<97, 8, 1, 0, 0, 0, 97>>) }

PairInputs == UNION {[1..n -> PairSamples] : n \in 0..MaxPairLen}

\* InvariantKey::new for both keys
PairNew ==
    /\ key_pc = "new"
    /\ data' = Encode(values)
    /\ other' = [other EXCEPT !.data = Encode(other.values)]
    /\ key_pc' = "built"
    /\ UNCHANGED <<values, got, iter, collected, pushed, fed>>

\* a.hash_prefix(h, n), b.hash_prefix(h', n) and a.hash(h'')
PairHashPrefix(n) ==
    /\ key_pc = "built"
    /\ fed' = [n |-> n, a |-> HashPrefix(data, n), b |-> HashPrefix(other.data, n),
               full |-> HashFull(data)]
    /\ key_pc' = "hashed"
    /\ UNCHANGED <<values, data, got, iter, collected, pushed, other>>

InitPair ==
    /\ status = "Initializing"
    /\ idxs = {}
    /\ ns_queue = <<>>
    /\ client = ClientFree
    /\ db_indexes = {}
    /\ db_schema = 1
    /\ healthy = FALSE
    /\ schema_version = NoVersion
    /\ indexes = {}
    /\ mon_pc = "check"
    /\ rx_closed = FALSE
    /\ tick = NoTick
    /\ engine_indexes = {}
    /\ values \in PairInputs
    /\ data = <<>>
    /\ key_pc = "new"
    /\ got = <<>>
    /\ iter = NoIter
    /\ collected = <<>>
    /\ pushed = 0
    /\ other \in [values : PairInputs, data : {<<>>}]
    /\ fed = NoFed
    /\ ApiIdle

NextPair ==
    \/ PairNew /\ UNCHANGED <<node_vars, db_vars, mon_vars, api_vars>>
    \/ \E n \in 0..(Len(values) + 1) :
         PairHashPrefix(n) /\ UNCHANGED <<node_vars, db_vars, mon_vars, api_vars>>

SpecPair == InitPair /\ [][NextPair]_vars

-----------------------------------------------------------------------------
(* Claims *)

\* C1: over events other than ConnectingToDb the status never decreases in
\* the order Initializing < ConnectingToDb < DiscoveringIndexes <
\* IndexingEmbeddings < Serving: each processed event leaves it equal or higher.
C1_StatusMonotone ==
    [][(NsRecv /\ Head(ns_queue).type # "ConnectingToDb")
            => Rank(status') >= Rank(status)]_vars

\* C2: once DiscoveringIndexes, IndexesDiscovered(S) and FullScanFinished(m)
\* for every m in S have been processed, the status is Serving; for S = {}
\* that is as soon as IndexesDiscovered({}) has been processed.
C2_StateResolution ==
    Resolved => status = "Serving"

-----------------------------------------------------------------------------
(* What a tick sent, read off its trace *)

HasOp(trace, op) == \E i \in DOMAIN trace : trace[i].op = op

CountDel(trace, id) ==
    Cardinality({i \in DOMAIN trace : trace[i] = DelIndex(id)})

\* the metadata of the AddIndex messages that were answered ok / Err
AddedIn(trace, ok) ==
    {[id |-> trace[i].id, version |-> trace[i].version] :
        i \in {j \in DOMAIN trace : trace[j].op = "AddIndex" /\ trace[j].ok = ok}}

\* every DelIndex of a message sequence reaches an engine that holds the index
RECURSIVE DelsHitLive(_, _)
DelsHitLive(E, msgs) ==
    IF msgs = <<>> THEN TRUE
    ELSE /\ Head(msgs).op = "DelIndex" => Head(msgs).id \in E
         /\ DelsHitLive(EngineOn(E, Head(msgs)), Tail(msgs))

A1 == [id |-> "A", version |-> 1]

B1 == [id |-> "B", version |-> 1]

\* the usable indexes the database declares
UsableDb == {Meta(d) : d \in {x \in db_indexes : x.usable}}

\* C3: after a tick that saw the schema version change, enumerated the set D
\* and had every AddIndex succeed, the monitor's local set is D and the engine
\* holds exactly the ids of D, whatever the earlier ticks did.
C3_Reconciled ==
    (tick.result = "reconciled" /\ AddedIn(tick.trace, FALSE) = {})
        => (indexes = tick.new /\ engine_indexes = Ids(tick.new))

\* a tick that both removed and added indexes, all adds succeeding
C3_Witness ==
    /\ tick.result = "reconciled"
    /\ AddedIn(tick.trace, FALSE) = {}
    /\ HasOp(tick.trace, "DelIndex")
    /\ HasOp(tick.trace, "AddIndex")
    /\ indexes = tick.new

\* the DelIndex part of C4: in every tick, an index gets one DelIndex when
\* its local metadata is missing from the enumeration and none otherwise, and
\* every DelIndex reaches an engine holding the index
C4_DelPerTick ==
    /\ \A id \in IndexIds :
         CountDel(tick'.trace, id) =
             IF tick'.result = "reconciled"
                  /\ \E m \in indexes : m.id = id /\ m \notin tick'.new
             THEN 1 ELSE 0
    /\ DelsHitLive(engine_indexes, EngineMsgs(tick'.trace))

C5_RemoveThenAdd ==
    [][(MonTickBody /\ tick'.result = "reconciled") =>
        /\ \A old \in indexes, m \in tick'.new :
             (old.id = m.id /\ old.version # m.version) =>
                 /\ CountDel(tick'.trace, old.id) = 1
                 /\ m \in AddedIn(tick'.trace, TRUE) \cup AddedIn(tick'.trace, FALSE)
        /\ \A i, j \in DOMAIN tick'.trace :
             (tick'.trace[i].op = "DelIndex" /\ tick'.trace[j].op = "AddIndex")
                 => i < j]_vars

\* a tick that replaced an index by its new version
C5_Witness ==
    /\ tick.result = "reconciled"
    /\ \E i, j \in DOMAIN tick.trace :
         /\ tick.trace[i].op = "DelIndex"
         /\ tick.trace[j].op = "AddIndex"
         /\ tick.trace[i].id = tick.trace[j].id
    /\ \E m \in indexes : m.version = 2

\* C6: a per-index metadata query that fails skips only that index; the tick
\* is not aborted, the enumeration still returns the other indexes and they
\* are reconciled in the same tick.
C6_SkipOnlyFailing ==
    (tick.errs # {} /\ "*" \notin tick.errs)
        => (tick.result = "reconciled" /\ HasOp(tick.trace, "IndexesDiscovered"))

\* the tick of C7: some AddIndex of a reconciling tick was answered Err
C7_FailedTick ==
    MonTickBody /\ tick'.result = "reconciled" /\ AddedIn(tick'.trace, FALSE) # {}

\* C7: when an AddIndex fails, only the metadata whose AddIndex succeeded
\* enter the local set and the cached schema version is invalidated; the tick
\* after an invalidation runs discovery again and sends AddIndex for every
\* enumerated metadata not in the local set although the database schema is
\* unchanged; and once the failures stop, the engine holds the indexes the
\* database declares (unless the monitor has been told to stop).
C7_RetryFailedAdd ==
    /\ [][C7_FailedTick =>
            /\ indexes' = (indexes \cap tick'.new) \cup AddedIn(tick'.trace, TRUE)
            /\ AddedIn(tick'.trace, FALSE) \cap indexes' = {}
            /\ schema_version' = NoVersion]_vars
    /\ [][(MonTickBody /\ schema_version = NoVersion /\ tick'.fetched = db_schema) =>
            /\ tick'.result # "unchanged"
            /\ HasOp(tick'.trace, "DiscoveringIndexes")
            /\ tick'.result = "reconciled" =>
                 AddedIn(tick'.trace, TRUE) \cup AddedIn(tick'.trace, FALSE)
                     = tick'.new \ indexes]_vars
    /\ healthy ~> (rx_closed \/ (indexes = UsableDb /\ engine_indexes = Ids(UsableDb)))

\* a tick in which one AddIndex succeeded and another failed
C7_Witness ==
    /\ tick.result = "reconciled"
    /\ AddedIn(tick.trace, FALSE) # {}
    /\ AddedIn(tick.trace, TRUE) # {}
    /\ indexes = AddedIn(tick.trace, TRUE)
    /\ schema_version = NoVersion

\* C8: a tick that fetches the schema version it has cached does nothing: no
\* DiscoveringIndexes, no enumeration, no AddIndex or DelIndex, and the local
\* set and the cached version stay as they are.
C8_UnchangedTick ==
    [][(MonTickBody /\ tick'.fetched = schema_version) =>
        /\ tick'.trace = <<>>
        /\ tick'.result = "unchanged"
        /\ UNCHANGED <<ns_queue, engine_indexes, indexes, schema_version>>]_vars

\* a tick in the steady state, with indexes held
C8_Witness ==
    /\ tick.result = "unchanged"
    /\ tick.fetched = db_schema
    /\ indexes # {}
    /\ mon_pc = "check"

\* C9: when every sender has been dropped the monitor completes the tick in
\* progress, if any, and then exits (the first loop test after the drop ends
\* the loop); after it has exited it sends nothing to the engine or to the
\* node-state actor.
C9_ExitOnClose ==
    /\ rx_closed ~> (mon_pc = "done")
    /\ [][(rx_closed /\ mon_pc = "tick") => (mon_pc' = "tick" \/ MonTickBody)]_vars
    /\ [][(rx_closed /\ mon_pc = "check") => mon_pc' \in {"check", "done"}]_vars
    /\ [][mon_pc = "done" =>
            /\ UNCHANGED <<mon_pc, engine_indexes, indexes, schema_version, tick>>
            /\ Len(ns_queue') <= Len(ns_queue)]_vars

\* the monitor has exited after a tick that was completed with the channel
\* closed
C9_Witness ==
    /\ mon_pc = "done"
    /\ rx_closed
    /\ engine_indexes # {}

\* C10: for every sequence v of at most 255 supported values, the key encoded
\* from v decodes to v: get(i) returns the i-th value for every i and nothing
\* past the end, and iter() yields the values of v in order and then ends,
\* each with the variant it had.
C10_RoundTrip ==
    (key_pc \in {"get", "iter", "done"}) =>
        /\ \A i \in DOMAIN got :
             got[i] = IF i <= Len(values) THEN values[i] ELSE None
        /\ collected = SubSeq(values, 1, Len(collected))
        /\ iter.remaining = IF key_pc = "get" THEN 0 ELSE Len(values) - Len(collected)
        /\ key_pc = "done" => collected = values

\* a key of 255 values, of every variant, read back by get and by iter
C10_Witness ==
    /\ key_pc = "done"
    /\ Len(values) = MAX_COLUMNS
    /\ Len(got) = MAX_COLUMNS + 1
    /\ collected = values
    /\ \E i, j \in DOMAIN values :
         /\ values[i].kind = "Text" /\ values[j].kind = "Ascii"
         /\ values[i].bytes = values[j].bytes

\* C11: for all supported value sequences a and b the encoded buffers are
\* byte-equal if and only if a = b, also when the sequences differ in length
\* or when the bytes of their variable-length values coincide once
\* concatenated.
C11_EqualIffSameBytes ==
    (key_pc \in {"built", "hashed"}) => ((data = other.data) <=> (values = other.values))

\* two different sequences whose strings concatenate to the same bytes, and
\* two equal non-empty sequences
C11_Witness ==
    /\ key_pc = "built"
    /\ \/ /\ values = <<Cql("Text", 0, <<97, 97>>)>>
          /\ other.values = <<Cql("Text", 0, <<97>>), Cql("Text", 0, <<97>>)>>
          /\ data # other.data
       \/ /\ values = <<Cql("Blob", 0, <<97>>), Cql("Text", 0, <<97>>)>>
          /\ other.values = values
          /\ data = other.data

\* C12: a key holds at most 255 values: try_new returns Ok for every length
\* 0..255 and an error, without a panic, for 256 or more; new panics for 256
\* or more; the builder accepts 255 pushes and panics on the 256th; the count
\* byte of a key or of a builder is the number of values, never wrapped.
C12_AtMost255 ==
    /\ [][(KeyTryNew /\ AllSupported(values)) =>
            IF Len(values) <= 255
                THEN key_pc' = "get" /\ data'[1] = Len(values)
                ELSE key_pc' = "error"]_vars
    /\ [][(KeyNew /\ Len(values) >= 256) => key_pc' = "panicked"]_vars
    /\ [][(KeyPush /\ Supported(values[pushed + 1])) =>
            IF pushed < 255
                THEN key_pc' = "building" /\ pushed' = pushed + 1
                ELSE key_pc' = "panicked"]_vars
    /\ [](/\ key_pc = "building" => data[1] = pushed
          /\ key_pc \in {"get", "iter", "done"} => data[1] = Len(values))

\* the builder has panicked on its 256th push
C12_Witness ==
    /\ key_pc = "panicked"
    /\ pushed = MAX_COLUMNS
    /\ data[1] = MAX_COLUMNS
    /\ Len(values) > MAX_COLUMNS

\* the encoded bytes of the first n values of a sequence
PrefixBytes(vs, n) == EncodeAll(SubSeq(vs, 1, n))

\* C13: hash_prefix(n) writes n as one byte and then the encoded bytes of
\* exactly the first n values (as a slice): two keys with equal first n
\* values write the same input whatever follows, two keys that differ within
\* their first n values write different inputs, and for n the length of the
\* key the input differs from the one the full-key hash writes.
C13_HashPrefix ==
    (key_pc = "hashed" /\ fed.n <= Len(values)) =>
        /\ fed.a = <<fed.n>> \o HashSlice(PrefixBytes(values, fed.n))
        /\ fed.n <= Len(other.values) =>
             (fed.a = fed.b <=>
                 SubSeq(values, 1, fed.n) = SubSeq(other.values, 1, fed.n))
        /\ fed.n = Len(values) => fed.a # fed.full

\* two keys with the same first value and different second values, hashed
\* over the first value
C13_Witness ==
    /\ key_pc = "hashed"
    /\ fed.n = 1
    /\ Len(values) = 2 /\ Len(other.values) = 2
    /\ values[1] = other.values[1]
    /\ values[2] # other.values[2]
    /\ fed.a = fed.b
    /\ fed.a # PanicBytes

\* the sizes of the one-value keys: one Int, one BigInt, one Uuid, one Text
\* of three bytes
SingleSizes ==
    /\ (Len(values) = 1 /\ values[1].kind = "Int") => Len(data) = 6
    /\ (Len(values) = 1 /\ values[1].kind = "BigInt") => Len(data) = 10
    /\ (Len(values) = 1 /\ values[1].kind = "Uuid") => Len(data) = 18
    /\ (Len(values) = 1 /\ values[1].kind = "Text" /\ Len(values[1].bytes) = 3)
          => Len(data) = 9

\* the key is an Int followed by a Text of five bytes
IntThenHello ==
    /\ Len(values) = 2
    /\ values[1].kind = "Int"
    /\ values[2].kind = "Text" /\ Len(values[2].bytes) = 5

\* C14: the buffer of a key, count byte included, is 6 bytes for one Int,
\* 10 for one BigInt, 18 for one Uuid, 9 for one Text of three bytes and 16
\* for an Int followed by a Text of five bytes (1 + 5 + 10: the Text carries
\* a tag, a four-byte length and its bytes); for every key it is the count
\* byte and the encoded_size of each value.
C14_HeapSize ==
    (key_pc = "get" /\ Len(values) <= MaxLen) =>
        /\ Len(data) = Capacity(values)
        /\ SingleSizes
        /\ IntThenHello => Len(data) = 16

\* C14 as stated: the same sizes, with 12 bytes for an Int followed by a
\* Text of five bytes.
C14_AsStated ==
    (key_pc = "get" /\ Len(values) <= MaxLen) =>
        /\ SingleSizes
        /\ IntThenHello => Len(data) = 12

\* the key of an Int and a Text of five bytes has been built
C14_Witness ==
    /\ key_pc = "get"
    /\ IntThenHello
    /\ Len(data) = 16

\* C15: validate_embedding_dimensions returns Ok exactly when the length of
\* the embedding equals the dimensions; for every other length, 0 included,
\* it returns WrongEmbeddingDimension with expected = the dimensions and
\* actual = the length.
C15_DimensionCheck ==
    [][IndexAnn =>
        LET len == passed[Len(passed)].embedding_len
        IN  /\ reply'.kind = "WrongEmbeddingDimension" <=> len # req.dimensions
            /\ reply'.kind = "WrongEmbeddingDimension" =>
                  reply'.expected = req.dimensions /\ reply'.actual = len]_vars

\* the index has refused an empty embedding and a longer one, and let an
\* embedding of the right length through
C15_Witness ==
    /\ http_pc = "reply_ann"
    /\ \/ reply = WrongEmbeddingDimension(MaxDim, 0)
       \/ reply = WrongEmbeddingDimension(2, MaxDim) /\ req.embedding_len = MaxDim

\* the body of the request deserialized, so the handler ran
Extracted == req.route = "count" \/ DeserializeLimit(req.limit).ok

SomeWrongKey ==
    /\ reply.kind = "Ok"
    /\ \E k \in DOMAIN reply.keys : reply.keys[k] # req.columns

\* C18: POST .../ann answers 500, never 200, whenever some primary key the
\* index returned has a number of values different from the number of
\* primary-key columns of the index, for every number of columns (zero
\* included) and every number of returned keys.
C18_WrongKeySize ==
    (http_pc = "done" /\ req.route = "ann" /\ SomeWrongKey) =>
        resp = INTERNAL_SERVER_ERROR

\* C19: an ann request whose embedding length differs from the dimensions of
\* the index is answered with a 4xx status, never a 5xx one.
C19_WrongDimension4xx ==
    (http_pc = "done" /\ req.route = "ann"
        /\ req.embedding_len # req.dimensions) =>
        resp \in 400..499

\* C20: an ann request with limit 0 or a limit above 1000 is rejected (never
\* answered 200, never passed to the index), every limit in 1..1000 is
\* passed on as it is, and a request without a limit uses 1.
C20_LimitRange ==
    /\ \A i \in DOMAIN passed :
          passed[i].op = "ann" => passed[i].limit \in 1..1000
    /\ (req.route = "ann" /\ (req.limit = 0 \/ req.limit > 1000)) => resp # OK
    /\ (req.route = "ann" /\ req.live /\ http_pc # "start") =>
          /\ req.limit \in 1..1000 =>
                passed # <<>> /\ passed[1].limit = req.limit
          /\ req.limit = NoLimit => passed # <<>> /\ passed[1].limit = 1

\* C16: within one index the messages of a task reach the index in the
\* order of its calls: when the index receives the message of a call, it
\* has received the message of every earlier call of the same task (a
\* write that returned before a read was called is received before the
\* read), and two messages of one task are never received out of order.
C16_MailboxOrder ==
    /\ \A i, j \in DOMAIN received :
          (i < j /\ received[i].task = received[j].task)
              => received[i].seq < received[j].seq
    /\ \A j \in DOMAIN received :
          \A n \in 1..(received[j].seq - 1) :
              \E i \in 1..(j - 1) :
                  received[i].task = received[j].task /\ received[i].seq = n

\* the index has received a write and then a read of task 1 with a message
\* of task 2 between them
C16_Witness ==
    /\ Len(received) >= 3
    /\ received[1].task = 1 /\ received[1].op = "add_or_replace"
    /\ received[2].task = 2
    /\ received[3].task = 1 /\ received[3].op = "ann" /\ received[3].seq = 2

\* C23: every node-state event is idempotent: from every reachable state,
\* processing the same event twice in a row leaves the actor where
\* processing it once does.
C23_Idempotent ==
    \A e \in Events :
        LET once == OnEvent(status, idxs, e)
        IN  OnEvent(once.status, once.idxs, e) = once

\* the mailbox holds the same FullScanFinished twice, for the last index the
\* actor is waiting for
C23_Witness ==
    /\ Len(ns_queue) = 2
    /\ ns_queue[1] = ns_queue[2]
    /\ ns_queue[1].type = "FullScanFinished"
    /\ idxs = ns_queue[1].indexes
    /\ status = "IndexingEmbeddings"

\* C26: FullScanFinished(m) changes the status only when the status is
\* IndexingEmbeddings (to Serving, when removing m leaves the pending set
\* empty); in Initializing, ConnectingToDb, DiscoveringIndexes or Serving
\* it leaves the status unchanged.
C26_FinishedOnlyWhenIndexing ==
    [][(NsRecv /\ Head(ns_queue).type = "FullScanFinished") =>
          IF status = "IndexingEmbeddings"
          THEN status' = (IF idxs \ Head(ns_queue).indexes = {}
                          THEN "Serving" ELSE status)
          ELSE status' = status]_vars

\* C28: in every reachable state of the node-state actor, status = Serving
\* implies that no index is awaited.
C28_ServingNothingPending == status = "Serving" => idxs = {}

\* the actor serves after the full scans of two discovered indexes
C28_Witness ==
    /\ status = "Serving"
    /\ idxs = {}
    /\ Resolved
    /\ Cardinality(client.S) = 2

\* C29: ConnectedToDb in any state, and IndexesDiscovered(S) received while
\* the status is not DiscoveringIndexes, leave the status and the pending
\* set unchanged.
C29_NoEffect ==
    [][(/\ NsRecv
        /\ \/ Head(ns_queue).type = "ConnectedToDb"
           \/ /\ Head(ns_queue).type = "IndexesDiscovered"
              /\ status # "DiscoveringIndexes")
          => UNCHANGED <<status, idxs>>]_vars

\* the actor waits for an index and is about to receive IndexesDiscovered
\* of another set
C29_Witness ==
    /\ ns_queue # <<>>
    /\ Head(ns_queue).type = "IndexesDiscovered"
    /\ status = "IndexingEmbeddings"
    /\ idxs # {}
    /\ Head(ns_queue).indexes # idxs
    /\ Head(ns_queue).indexes # {}

\* C24: two IndexIds are equal if and only if the (keyspace, index) pairs
\* they were built from are equal, and keyspace() and index() return the
\* pair the IndexId was built from.
C24_IdentityByPair ==
    /\ ident.pc \in {"built", "read"} =>
          (ident.ida = ident.idb <=> ident.a = ident.b)
    /\ ident.pc = "read" =>
          ident.keyspace = ident.a[1] /\ ident.index = ident.a[2]

\* C30: GetStatus replies with the status that results from exactly the
\* messages the actor received before it (so a get_status issued after a
\* send_event has returned sees that event's effect), it changes neither
\* the status nor the pending set, and a GetStatus whose requester dropped
\* the reply channel does not stop the actor.
C30_GetStatus ==
    /\ [][NsGetStatus =>
            /\ UNCHANGED <<status, idxs>>
            /\ ask.phase = "waiting" => ask'.reply = ask.expect]_vars
    /\ []ns_alive

\* the requester of a get_status that was due IndexingEmbeddings dropped
\* its reply channel; the actor took the request and went on to Serving
C30_Witness ==
    /\ ask.phase = "lost"
    /\ ask.expect = "IndexingEmbeddings"
    /\ ns_alive
    /\ status = "Serving"
    /\ ns_queue = <<>>

\* C21: for every POST .../ann request, whatever its outcome (400, 404, 500
\* or 200), one latency observation labelled with the (keyspace, index) of
\* the request is recorded, and only one.
C21_LatencyObserved ==
    (http_pc = "done" /\ req.route = "ann") => observed = <<req.path>>

\* C22: between the moment an index is live in the engine and the moment
\* its full scan completes, an ann on it is answered with a 503-class error
\* (not 200 and not 404); after the scan the same query succeeds.
C22_UnavailableUntilScanned ==
    (http_pc = "done" /\ req.route = "ann" /\ Extracted /\ req.live
        /\ ~req.scanned) =>
        resp \in 500..599 /\ resp # OK /\ resp # NOT_FOUND

\* the place of a component in the shutdown order: server, engine, actors
Tier(c) == CASE c[1] = "http" -> 1 [] c[1] = "engine" -> 2 [] OTHER -> 3

\* C25: on Ctrl-C or the termination signal the components stop in order:
\* the HTTP server first, then the engine, then the per-index actors; no
\* per-index actor stops before the engine and the engine does not stop
\* before the HTTP server.
C25_ShutdownOrder ==
    \A i, j \in DOMAIN down.stopped :
        i < j => Tier(down.stopped[i]) <= Tier(down.stopped[j])

\* C27: each index emitting FullScanFinished exactly once, when its own full
\* scan completes, the node status eventually becomes Serving after every
\* monitor tick that completes discovery - here, once the transient failures
\* have stopped, after a tick that found at least one index and left every
\* index it found running - including a tick that re-discovers indexes whose
\* full scan finished before it.
C27_ServingAfterDiscovery ==
    (/\ healthy
     /\ tick.result = "reconciled"
     /\ tick.new # {}
     /\ tick.new \subseteq indexes) ~> (status = "Serving")

\* C31: within one monitor tick, IndexesDiscovered(new) is the last thing the
\* tick sends: it comes after every DelIndex and every answered AddIndex of
\* the tick.
C31_DiscoveredLast ==
    tick.result = "reconciled" =>
        \A i \in DOMAIN tick.trace :
            tick.trace[i].op = "IndexesDiscovered" => i = Len(tick.trace)

\* C32: has_changed takes a failed query for an answer of None, reports a
\* change exactly when the fetched value differs from the cached one and
\* then holds the fetched value (until the tick resets it); so a failed query
\* clears the cached version, and a tick that finds the cache cleared and
\* fetches a version reports a change.
C32_HasChanged ==
    [][MonTickBody =>
        /\ tick'.fetched \in {db_schema, NoVersion}
        /\ (tick'.result = "unchanged") = (tick'.fetched = schema_version)
        /\ tick'.result = "unchanged" => schema_version' = tick'.fetched
        /\ tick'.result # "unchanged" => schema_version' \in {tick'.fetched, NoVersion}
        /\ (schema_version # NoVersion /\ tick'.fetched = NoVersion)
             => (tick'.result # "unchanged" /\ schema_version' = NoVersion)
        /\ (schema_version = NoVersion /\ tick'.fetched # NoVersion)
             => tick'.result # "unchanged"]_vars

\* a tick whose schema-version query failed while a version was cached: it
\* was taken for a change and the cache is cleared, with the indexes held
C32_Witness ==
    /\ tick.result = "reconciled"
    /\ tick.fetched = NoVersion
    /\ EngineMsgs(tick.trace) = <<>>
    /\ indexes # {}
    /\ schema_version = NoVersion

\* C34: when index enumeration fails in a tick, after DiscoveringIndexes was
\* emitted, the tick sends no DelIndex and no AddIndex, emits no
\* IndexesDiscovered, leaves the local index set unchanged and resets the
\* cached schema version; and no tick removes an index the database still
\* declares, whatever queries failed.
C34_EnumerationFailed ==
    [][MonTickBody =>
        /\ tick'.result = "enum_failed" =>
              /\ tick'.trace = <<SendEvent(EvDiscoveringIndexes)>>
              /\ ns_queue' = Append(ns_queue, EvDiscoveringIndexes)
              /\ UNCHANGED <<indexes, engine_indexes>>
              /\ schema_version' = NoVersion
        /\ tick'.errs # {} => tick'.result = "enum_failed"
        /\ (indexes \ indexes') \cap UsableDb = {}
        /\ \A m \in UsableDb :
              (m \in indexes /\ m.id \in engine_indexes) => m.id \in engine_indexes']_vars

\* a tick whose enumeration failed while indexes were live in the engine
C34_Witness ==
    /\ tick.result = "enum_failed"
    /\ indexes # {}
    /\ engine_indexes = Ids(indexes)
    /\ indexes \subseteq UsableDb
    /\ schema_version = NoVersion

\* C33: the AddIndex requests of one tick are issued concurrently: while one
\* AddIndex is waiting for the engine's answer and the tick has another
\* index to add, the next AddIndex can be sent.
C33_AddsConcurrent ==
    (adding.pc = "running" /\ adding.outstanding # {} /\ adding.todo # <<>>)
        => ENABLED (AddSend /\ UNCHANGED rest_of_adding)

\* C35: a key built by InvariantKeyBuilder by pushing v0..v(n-1) one at a
\* time is byte-identical to InvariantKey::new([v0..v(n-1)]), for every n in
\* 0..=255 (after every push the buffer is the key of the values pushed so
\* far), and in every key built either way the first byte is the number of
\* encoded values that follow it.
C35_BuilderSameAsNew ==
    /\ key_pc = "building" =>
          /\ pushed <= MAX_COLUMNS
          /\ data = Encode(SubSeq(values, 1, pushed))
    /\ key_pc \in {"building", "get", "iter", "done"} =>
          /\ data[1] \in 0..MAX_COLUMNS
          /\ SkipTo(data, COUNT_SIZE, data[1]) = Len(data)
    /\ key_pc \in {"get", "iter", "done"} => data = Encode(values)

\* a builder that has taken 255 pushes, of every variant
C35_Witness ==
    /\ key_pc = "building"
    /\ pushed = MAX_COLUMNS
    /\ Len(values) = MAX_COLUMNS
    /\ data = Encode(values)
    /\ data[1] = MAX_COLUMNS

\* indexes past the end of a key, up to the largest
PastEnd(n) == {n, n + 1, MAX_COLUMNS, MAX_COLUMNS + 1, 2147483647} \ (0..(n - 1))

\* C36: for every key of n values, get(i) returns the i-th value for i < n
\* and None for every i >= n; iter() yields exactly n values, equal to
\* get(0)..get(n-1) in order, and then None on every further call; and
\* skip_value and decode_value consume the same number of bytes for every
\* tag, so that the iterator stands where get's skips arrive.
C36_GetAndIter ==
    /\ \A i \in DOMAIN SupportedSamples :
          SkipValue(EncodeValue(SupportedSamples[i]))
              = DecodeValue(EncodeValue(SupportedSamples[i])).consumed
    /\ {KindOfTag(EncodeValue(SupportedSamples[i])[1]) : i \in DOMAIN SupportedSamples}
          = {KindOfTag(t) : t \in TAG_EMPTY..TAG_BLOB}
    /\ key_pc \in {"get", "iter", "done"} =>
          /\ \A i \in DOMAIN got :
                got[i] = IF i <= data[1] THEN values[i] ELSE None
          /\ \A i \in PastEnd(data[1]) : Get(data, i) = None
    /\ key_pc \in {"iter", "done"} =>
          /\ Len(got) = data[1] + 1
          /\ Len(collected) <= data[1]
          /\ \A i \in DOMAIN collected : collected[i] = got[i]
          /\ iter.remaining = data[1] - Len(collected)
          /\ iter.offset = SkipTo(data, COUNT_SIZE, Len(collected))
    /\ key_pc = "done" =>
          /\ Len(collected) = data[1]
          /\ iter.remaining = 0
          /\ iter.offset = Len(data)

\* an iterator that has yielded every value of a key of several variants,
\* a Boolean and a Text among them, and has answered None
C36_Witness ==
    /\ key_pc = "done"
    /\ Len(values) = MAX_COLUMNS
    /\ Len(collected) = MAX_COLUMNS
    /\ got[MAX_COLUMNS + 1] = None
    /\ \E i, j \in DOMAIN collected :
         collected[i].kind = "Boolean" /\ collected[j].kind = "Text"

\* C37: encoding a primary key that holds a value of an unsupported CQL kind
\* fails as a recoverable error: try_new returns an error value and does
\* not panic.
C37_UnsupportedIsError ==
    [][(KeyTryNew /\ ~AllSupported(values)) => key_pc' = "error"]_vars

\* C38: ann and count called on an index whose actor has stopped (its
\* mailbox is closed, or it drops the reply channel without answering)
\* return an error value to the caller: no call panics, a call that got no
\* answer returns the error of its operation, and no such call waits forever.
C38_StoppedIndexIsError ==
    /\ [](\A c \in Callers :
            /\ call.callers[c].result # "panic"
            /\ (call.callers[c].pc = "returned"
                  /\ call.callers[c].reply \in {"none", "dropped"})
                 => call.callers[c].result = ErrorOf(call.callers[c].op))
    /\ \A c \in Callers :
          (/\ call.callers[c].pc \in {"send", "await"}
           /\ call.actor = "stopped" \/ call.callers[c].reply = "dropped")
              ~> (call.callers[c].pc = "returned")

\* the index stopped with the message of an ann call in its mailbox, and a
\* count call found the mailbox closed: both calls returned their error
C38_Witness ==
    /\ call.actor = "stopped"
    /\ \E c, d \in Callers :
         /\ call.callers[c] = [op |-> "ann", pc |-> "returned",
                               reply |-> "dropped", result |-> "OtherError"]
         /\ call.callers[d] = [op |-> "count", pc |-> "returned",
                               reply |-> "none", result |-> "Err"]

\* C39: after the RPC server has received Stop, its accept loop exits
\* without accepting another connection, the stop signal is published, and
\* every connection handler spawned before the stop, in the negotiation
\* phase or in the RPC phase, eventually terminates.
C39_StopEndsServer ==
    /\ [][rpc.got_stop => \A id \in ConnIds :
            rpc.conns[id] = "none" => rpc'.conns[id] = "none"]_vars
    /\ [][rpc.got_stop => rpc'.pc \in {"test", "done"}]_vars
    /\ rpc.got_stop ~>
          (/\ rpc.pc = "done"
           /\ rpc.stop
           /\ \A id \in ConnIds : rpc.conns[id] \in {"none", "ended"})

\* the server has exited on Stop with one handler negotiating and one in
\* the RPC phase, and both handlers have ended
C39_Witness ==
    /\ rpc.got_stop
    /\ rpc.pc = "done"
    /\ rpc.stop
    /\ \E i, j \in ConnIds :
         /\ rpc.at_stop[i] \in {"negotiating", "neg_io"}
         /\ rpc.at_stop[j] \in {"rpc", "rpc_io"}
    /\ \A id \in ConnIds : rpc.conns[id] = "ended"

\* C40: when every sender of the RPC server's input channel is dropped
\* without a Stop message, the server task still exits and publishes the
\* stop signal to its connection handlers, without a further incoming
\* connection.
C40_ExitOnSendersDropped ==
    (rpc.pc \in {"test", "select"} /\ rpc.senders = 0 /\ ~rpc.got_stop /\ rpc.queue = 0)
        ~> (rpc.pc = "done" /\ rpc.stop)

=============================================================================
